---- MODULE Spec2Model ----
(***************************************************************************)
(* Portable JDK toolchain: analyze-jar.js (JAR module analyzer),           *)
(* download-jdks.js (JDK downloader) and build-jre-all-platforms.js        *)
(* (jlink driver), modelled as state machines over the filesystem and the  *)
(* outcomes of the external tools.                                         *)
(*                                                                         *)
(* Strings are sequences of one-character strings, so that sort, split,    *)
(* join and trim are computed the way the JavaScript code computes them.   *)
(***************************************************************************)
EXTENDS Integers, Sequences, FiniteSets, TLC

VARIABLES
    \* ---- analyze-jar.js
    apc,            \* position of main(): "discover", "findjdk", "analyze", "finalize", "done", "exit"
    ainput,         \* process.argv[2] and the paths findJarFiles looks at
    jarFiles,       \* the array findJarFiles returned
    jdkFound,       \* whether findJDK returned a directory
    aidx,           \* number of JARs the forEach of main has handled
    allModules,     \* the Set allModules, in insertion order
    jarResults,     \* the array jarResults
    finalModules,   \* the array finalModules
    modSource,      \* 'jdeps' or 'default'
    written,        \* the module-list files main has written: {[name, content]}
    aexit,          \* exit status of the analyzer (-1 while running)
    \* ---- build-jre-all-platforms.js
    bpc,            \* "load", "main", "single", "all", "exited" ("idle": not run)
    envMODULES,     \* process.env.MODULES: [set, value]
    cwdFiles,       \* the files of the working directory, in readdir order: [name, content, mtime]
    MODULES,        \* the global MODULES
    modulesSource,  \* the global modulesSource: [kind, name]
    sourceLog,      \* the tags of the lines the resolution printed: "AUTO", "CUSTOM", "ENV"
    argvPlatform,   \* process.argv[2]: [given, key]
    jdkDirExists,   \* whether jdk-downloads exists
    bidx,           \* number of builders the loop of main has called
    results,        \* the object results of main, in insertion order: [name, success]
    lastBuild,      \* what the most recent builder call saw and did
    bexit,          \* exit status of the builder (-1 while running)
    \* ---- download-jdks.js
    dpc,            \* "start", "request", "stream", "extract", "extracting", "exited", "killed" ("idle": not run)
    didx,           \* number of platforms the loop of main has finished
    dfs,            \* jdk-downloads, per platform: [final, archive, temp]
    dlog,           \* per platform, what this invocation did and printed
    redirects,      \* redirects followed by the download in progress (0 when none is)
    dsummary,       \* what main prints after the loop: [banner, failed]
    dexit,          \* exit status of the downloader (-1 while running)
    druns,          \* invocations of the downloader so far
    dfaults,        \* platforms with leftovers at the start plus faults so far
    dkills,         \* interruptions so far
    \* ---- create-portable.js
    ppc,            \* "main", "single", "all", "exited"; "required": loaded by require ("idle": not run)
    pargv,          \* process.argv[2]: [given, key], the key as <<platform, arch>>
    jreDirExists,   \* whether jre-builds exists
    jarCount,       \* JAR_FILES.length
    pidx,           \* number of platforms the loop of main has handled
    presults,       \* the object results of main, in insertion order: [name, success]
    archives,       \* the archives this run has created in portable-releases: [target, format]
    lastPkg,        \* what the most recent call of createPortablePackage saw and did
    pexit,          \* exit status of the packager (-1 while running)
    \* ---- analyzeJAR of analyze-jar.js, one call step by step
    jd,             \* [pc, versioned, plain, calls, result]
    \* ---- the JDK version of build-jre-all-platforms.js (line 50)
    jv,             \* [pc, env, dirExists, entries, JDK_VERSION]
    \* ---- findJDK of analyze-jar.js followed by the path analyzeJAR builds
    fj              \* [pc, platform, files, found, jdeps]

avars == <<apc, ainput, jarFiles, jdkFound, aidx, allModules, jarResults, finalModules,
           modSource, written, aexit>>

bvars == <<bpc, envMODULES, cwdFiles, MODULES, modulesSource, sourceLog, argvPlatform,
           jdkDirExists, bidx, results, lastBuild, bexit>>

dvars == <<dpc, didx, dfs, dlog, redirects, dsummary, dexit, druns, dfaults, dkills>>

pvars == <<ppc, pargv, jreDirExists, jarCount, pidx, presults, archives, lastPkg, pexit>>

vars == <<avars, bvars, dvars, pvars, jd, jv, fj>>

-----------------------------------------------------------------------------
(* Strings *)

\* The characters the model uses, in ascending UTF-16 code unit order.
CodeUnits ==
    <<"\n", " ", ",", "-", ".", "/", "0", "1", "2", "3", "4", "5", "6", "7", "8",
      "9", "E", "a", "b", "c", "d", "e", "f", "g",
      "h", "i", "j", "k", "l", "m", "n", "o", "p", "q", "r", "s", "t", "u",
      "v", "w", "x", "y", "z">>

CharCode(c) == CHOOSE i \in 1..Len(CodeUnits) : CodeUnits[i] = c

Range(s) == {s[i] : i \in 1..Len(s)}

Whitespace == {" ", "\n"}

\* a < b in the order Array.prototype.sort uses without a comparator
RECURSIVE StrLess(_, _)
StrLess(a, b) ==
    IF b = <<>> THEN FALSE
    ELSE IF a = <<>> THEN TRUE
    ELSE IF Head(a) = Head(b) THEN StrLess(Tail(a), Tail(b))
    ELSE CharCode(Head(a)) < CharCode(Head(b))

\* String.prototype.trim
RECURSIVE TrimLeft(_)
TrimLeft(s) ==
    IF s # <<>> /\ Head(s) \in Whitespace THEN TrimLeft(Tail(s)) ELSE s

RECURSIVE TrimRight(_)
TrimRight(s) ==
    IF s # <<>> /\ s[Len(s)] \in Whitespace
    THEN TrimRight(SubSeq(s, 1, Len(s) - 1)) ELSE s

Trim(s) == TrimRight(TrimLeft(s))

\* String.prototype.startsWith / endsWith / includes
StartsWith(s, pre) ==
    Len(pre) <= Len(s) /\ SubSeq(s, 1, Len(pre)) = pre

EndsWith(s, suf) ==
    Len(suf) <= Len(s) /\ SubSeq(s, Len(s) - Len(suf) + 1, Len(s)) = suf

Includes(s, sub) ==
    \E i \in 1..(Len(s) - Len(sub) + 1) : SubSeq(s, i, i + Len(sub) - 1) = sub

\* String.prototype.split(',') : the pieces between the commas ('' gives [''])
RECURSIVE SplitFrom(_, _, _)
SplitFrom(s, i, piece) ==
    IF i > Len(s) THEN <<piece>>
    ELSE IF s[i] = "," THEN <<piece>> \o SplitFrom(s, i + 1, <<>>)
    ELSE SplitFrom(s, i + 1, Append(piece, s[i]))

Split(s) == SplitFrom(s, 1, <<>>)

\* Array.prototype.join(',')
RECURSIVE Join(_)
Join(a) ==
    IF a = <<>> THEN <<>>
    ELSE IF Len(a) = 1 THEN a[1]
    ELSE a[1] \o <<",">> \o Join(Tail(a))

\* Array.prototype.sort() without a comparator: ascending by code units
RECURSIVE InsertSorted(_, _)
InsertSorted(a, x) ==
    IF a = <<>> THEN <<x>>
    ELSE IF StrLess(x, Head(a)) THEN <<x>> \o a
    ELSE <<Head(a)>> \o InsertSorted(Tail(a), x)

RECURSIVE JsSort(_)
JsSort(a) ==
    IF a = <<>> THEN <<>>
    ELSE InsertSorted(JsSort(SubSeq(a, 1, Len(a) - 1)), a[Len(a)])

\* Array.prototype.map(m => m.trim())
TrimAll(a) == [i \in 1..Len(a) |-> Trim(a[i])]

-----------------------------------------------------------------------------
(* analyze-jar.js *)

base == <<"b", "a", "s", "e">>
sql  == <<"s", "q", "l">>
xml  == <<"x", "m", "l">>
ErrorWord == <<"E", "r", "r", "o", "r">>
NotFoundWords == <<"n", "o", "t", " ", "f", "o", "u", "n", "d">>

\* The built-in default list, in the order the source gives it.
java_base       == <<"j","a","v","a",".","b","a","s","e">>
java_desktop    == <<"j","a","v","a",".","d","e","s","k","t","o","p">>
java_xml        == <<"j","a","v","a",".","x","m","l">>
java_logging    == <<"j","a","v","a",".","l","o","g","g","i","n","g">>
java_naming     == <<"j","a","v","a",".","n","a","m","i","n","g">>
java_sql        == <<"j","a","v","a",".","s","q","l">>
java_management == <<"j","a","v","a",".","m","a","n","a","g","e","m","e","n","t">>
jdk_unsupported == <<"j","d","k",".","u","n","s","u","p","p","o","r","t","e","d">>

DEFAULT_MODULES_LIST ==
    <<java_base, java_desktop, java_xml, java_logging, java_naming, java_sql,
      java_management, jdk_unsupported>>

\* The JAR paths a run may discover.
JarX == <<"x", ".", "j", "a", "r">>
JarY == <<"y", ".", "j", "a", "r">>
JarZ == <<"z", ".", "j", "a", "r">>
JarNames == {JarX, JarY, JarZ}

\* At most this many JARs are discovered in one run.
MaxJars == 3

\* What one execSync of jdeps does: it throws, or returns its standard output.
Threw == [threw |-> TRUE, out |-> <<>>]
Printed(s) == [threw |-> FALSE, out |-> s]

ToolResults ==
    { Threw,
      Printed(<<>>),
      Printed(Join(<<base, xml>>) \o <<"\n">>),
      Printed(Join(<<base, sql>>)),
      Printed(Join(<<xml, base>>)),
      Printed(<<" ">> \o sql \o <<" ", ",", ",", "-", "x">>),
      Printed(ErrorWord \o <<" ">> \o base),
      Printed(base \o <<" ">> \o NotFoundWords),
      Printed(<<"-", "x">>) }

\* analyzeJAR's return value: null, or a non-empty array of module names
Null == [isNull |-> TRUE, modules |-> <<>>]
Modules(m) == [isNull |-> FALSE, modules |-> m]

\* the filter of analyzeJAR: m && !m.startsWith('-') && !m.includes('Error')
UsableToken(m) == m # <<>> /\ ~StartsWith(m, <<"-">>) /\ ~Includes(m, ErrorWord)

RECURSIVE FilterUsable(_)
FilterUsable(a) ==
    IF a = <<>> THEN <<>>
    ELSE (IF UsableToken(Head(a)) THEN <<Head(a)>> ELSE <<>>) \o FilterUsable(Tail(a))

\* the plain invocation tried first
AnalyzePlainFirst(versioned, plain) ==
    LET run == IF plain.threw THEN versioned ELSE plain
        output == Trim(run.out)
        modules == FilterUsable(TrimAll(Split(output)))
    IN  IF run.threw THEN Null
        ELSE IF output = <<>> \/ Includes(output, ErrorWord)
                \/ Includes(output, NotFoundWords) THEN Null
        ELSE IF Len(modules) > 0 THEN Modules(modules) ELSE Null

\* analyzeJAR(jarPath, jdkPath), given what the versioned and the plain
\* invocation of jdeps would do
analyzeJAR(versioned, plain) ==
    LET run == IF versioned.threw THEN plain ELSE versioned
        output == Trim(run.out)
        modules == FilterUsable(TrimAll(Split(output)))
    IN  IF run.threw THEN Null
        ELSE IF output = <<>> \/ Includes(output, ErrorWord)
                \/ Includes(output, NotFoundWords) THEN Null
        ELSE IF Len(modules) > 0 THEN Modules(modules) ELSE Null

\* One call of analyzeJAR: the invocations of jdeps made so far, in order,
\* and the value returned.
JIdle ==
    jd = [pc |-> "idle", versioned |-> Threw, plain |-> Threw, calls |-> <<>>,
          result |-> Null]

\* execSync(`"${jdeps}" --multi-release 17 --print-module-deps ...`)
TryVersioned ==
    /\ jd.pc = "start"
    /\ jd' = [jd EXCEPT !.calls = Append(@, "versioned"),
                        !.pc = IF jd.versioned.threw THEN "fallback" ELSE "parse"]
    /\ UNCHANGED <<avars, bvars, dvars, pvars, jv, fj>>

\* the catch of the inner try: execSync(`"${jdeps}" --print-module-deps ...`)
TryPlain ==
    /\ jd.pc = "fallback"
    /\ jd' = [jd EXCEPT !.calls = Append(@, "plain"), !.pc = "parse"]
    /\ UNCHANGED <<avars, bvars, dvars, pvars, jv, fj>>

\* the rest of analyzeJAR, up to its return
ParseOutput ==
    /\ jd.pc = "parse"
    /\ jd' = [jd EXCEPT !.result = analyzeJAR(jd.versioned, jd.plain),
                        !.pc = "returned"]
    /\ UNCHANGED <<avars, bvars, dvars, pvars, jv, fj>>

\* Calls of analyzeJAR over every pair of outcomes of the two invocations.
JInit ==
    /\ jd \in [pc : {"start"}, versioned : ToolResults, plain : ToolResults,
                calls : {<<>>}, result : {Null}]

JNext == TryVersioned \/ TryPlain \/ ParseOutput

\* ---- findJDK (lines 241-297) and the path analyzeJAR runs (line 300)

Platforms == {"win32", "linux", "darwin"}

\* The places findJDK looks at, in its order: the downloaded Windows JDK,
\* JAVA_HOME, a common installation path, the JDK that javac in PATH belongs to.
Candidates == <<"downloaded", "javaHome", "common", "path">>

\* what a place holds: the directory, bin/jdeps.exe and bin/jdeps in it
Places ==
    {pl \in [dir : BOOLEAN, exe : BOOLEAN, plain : BOOLEAN] :
        ~pl.dir => (~pl.exe /\ ~pl.plain)}

NoPlace == [dir |-> FALSE, exe |-> FALSE, plain |-> FALSE]

NoJdk == [isNull |-> TRUE, dir |-> "none", checked |-> "none"]

\* process.platform === 'win32' ? 'jdeps.exe' : 'jdeps'
JdepsName(platform) == IF platform = "win32" THEN "jdeps.exe" ELSE "jdeps"

\* fs.existsSync(path.join(dir, 'bin', name))
ToolExists(place, name) == IF name = "jdeps.exe" THEN place.exe ELSE place.plain

findJDK(platform, javaHomeSet, javacFound, files) ==
    LET name == JdepsName(platform)
    IN  IF files["downloaded"].dir /\ ToolExists(files["downloaded"], "jdeps.exe")
        THEN [isNull |-> FALSE, dir |-> "downloaded", checked |-> "jdeps.exe"]
        ELSE IF javaHomeSet /\ files["javaHome"].dir
                /\ ToolExists(files["javaHome"], name)
        THEN [isNull |-> FALSE, dir |-> "javaHome", checked |-> name]
        ELSE IF files["common"].dir /\ ToolExists(files["common"], name)
        THEN [isNull |-> FALSE, dir |-> "common", checked |-> name]
        ELSE IF javacFound /\ ToolExists(files["path"], name)
        THEN [isNull |-> FALSE, dir |-> "path", checked |-> name]
        ELSE NoJdk

\* const jdeps = path.join(jdkPath, 'bin', ...)
JdepsPath(platform, jdkPath) == [dir |-> jdkPath, file |-> JdepsName(platform)]

NoPath == [dir |-> "none", file |-> "none"]

FIdle ==
    fj = [pc |-> "idle", platform |-> "linux", javaHomeSet |-> FALSE,
          javacFound |-> FALSE,
          files |-> [c \in Range(Candidates) |-> NoPlace],
          found |-> NoJdk, jdeps |-> NoPath]

\* Every host and every state of the four places.
FInit ==
    /\ fj \in [pc : {"find"}, platform : Platforms, javaHomeSet : BOOLEAN,
               javacFound : BOOLEAN,
               files : [Range(Candidates) -> Places],
               found : {NoJdk}, jdeps : {NoPath}]
    /\ ~fj.javaHomeSet => fj.files["javaHome"] = NoPlace
    /\ fj.javacFound <=> fj.files["path"].dir

\* const jdkPath = findJDK()
CallFindJDK ==
    /\ fj.pc = "find"
    /\ LET r == findJDK(fj.platform, fj.javaHomeSet, fj.javacFound, fj.files)
       IN  fj' = [fj EXCEPT !.found = r,
                            !.pc = IF r.isNull THEN "defaults" ELSE "analyze"]
    /\ UNCHANGED <<avars, bvars, dvars, pvars, jd, jv>>

\* the first statement of analyzeJAR(jarFile, jdkPath)
BuildJdepsPath ==
    /\ fj.pc = "analyze"
    /\ fj' = [fj EXCEPT !.jdeps = JdepsPath(fj.platform, fj.found.dir),
                        !.pc = "built"]
    /\ UNCHANGED <<avars, bvars, dvars, pvars, jd, jv>>

FNext == CallFindJDK \/ BuildJdepsPath

\* allModules.add(m) for each m of modules, in order
RECURSIVE AddAll(_, _)
AddAll(set, modules) ==
    IF modules = <<>> THEN set
    ELSE AddAll(IF Head(modules) \in Range(set) THEN set
                ELSE Append(set, Head(modules)), Tail(modules))

\* the sort left out: the modules stay in insertion order
SortUnsorted(set) == set

\* Array.from(allModules).sort()
SortedModules(set) == JsSort(set)

\* the extension kept in the name
BaseNameWithExt(jar) == jar

\* path.basename(jar, path.extname(jar)) for the flat names of JarNames
BaseName(jar) == SubSeq(jar, 1, Len(jar) - 4)

ModulesSuffix == <<"-","m","o","d","u","l","e","s",".","t","x","t">>
CombinedName == <<"c","o","m","b","i","n","e","d">> \o ModulesSuffix

JarExt == <<".", "j", "a", "r">>
\* A path that does not end in '.jar'.
OtherFile == <<"a", ".", "t", "x", "t">>
DirEntries == JarNames \cup {OtherFile}

\* Directory listings: distinct entries, at most MaxJars of them. The entries
\* are regular files, and paths are kept without their directory part
\* (main uses path.basename of them).
DirLists ==
    {s \in UNION {[1..n -> DirEntries] : n \in 0..MaxJars} :
        \A i, j \in 1..Len(s) : i # j => s[i] # s[j]}

\* .filter(f => f.endsWith('.jar'))
RECURSIVE FilterJars(_)
FilterJars(a) ==
    IF a = <<>> THEN <<>>
    ELSE (IF EndsWith(Head(a), JarExt) THEN <<Head(a)>> ELSE <<>>) \o FilterJars(Tail(a))

\* What a run is given: the argument (given: it is truthy), what is at that
\* path ("missing", "file", "dir") and the listing of it if a directory;
\* what is at ./jars ("absent", "file", "dir") and its listing; the listing
\* of the working directory. Two listings hold at most MaxJars entries together.
NoArgument ==
    [given : {FALSE}, path : {<<>>}, kind : {"missing"}, dirList : {<<>>},
     jarsDir : {"absent", "file"}, jarsList : {<<>>}, cwdList : DirLists]
    \cup {in \in [given : {FALSE}, path : {<<>>}, kind : {"missing"}, dirList : {<<>>},
                  jarsDir : {"dir"}, jarsList : DirLists, cwdList : DirLists] :
            Len(in.jarsList) + Len(in.cwdList) <= MaxJars}

WithArgument ==
    [given : {TRUE}, path : {JarX, OtherFile}, kind : {"missing", "file"},
     dirList : {<<>>}, jarsDir : {"absent"}, jarsList : {<<>>}, cwdList : DirLists]
    \cup {in \in [given : {TRUE}, path : {JarX, OtherFile}, kind : {"dir"},
                  dirList : DirLists, jarsDir : {"absent"}, jarsList : {<<>>},
                  cwdList : DirLists] :
            Len(in.dirList) + Len(in.cwdList) <= MaxJars}

AInputs == NoArgument \cup WithArgument

\* findJarFiles: process.exit(1), or the array returned
ExitOne == [exit |-> TRUE, jars |-> <<>>]
Found(jars) == [exit |-> FALSE, jars |-> jars]

\* a file given as argument taken as a JAR whatever its name
FindJarFilesAnyFile(in) ==
    IF ~in.given
    THEN IF in.jarsDir = "dir" /\ Len(FilterJars(in.jarsList)) > 0
         THEN Found(FilterJars(in.jarsList))
         ELSE IF Len(FilterJars(in.cwdList)) > 0
         THEN Found(FilterJars(in.cwdList))
         ELSE ExitOne
    ELSE IF in.kind = "file" THEN Found(<<in.path>>)
    ELSE IF in.kind = "dir"
    THEN IF Len(FilterJars(in.dirList)) = 0 THEN ExitOne
         ELSE Found(FilterJars(in.dirList))
    ELSE ExitOne

\* findJarFiles(input)
findJarFiles(in) ==
    IF ~in.given
    THEN IF in.jarsDir = "dir" /\ Len(FilterJars(in.jarsList)) > 0
         THEN Found(FilterJars(in.jarsList))
         ELSE IF Len(FilterJars(in.cwdList)) > 0
         THEN Found(FilterJars(in.cwdList))
         ELSE ExitOne
    ELSE IF in.kind = "file" /\ EndsWith(in.path, JarExt) THEN Found(<<in.path>>)
    ELSE IF in.kind = "dir"
    THEN IF Len(FilterJars(in.dirList)) = 0 THEN ExitOne
         ELSE Found(FilterJars(in.dirList))
    ELSE ExitOne

\* the default list added to what was detected
FinalWithDefaults(set) == JsSort(AddAll(set, DEFAULT_MODULES_LIST))

\* the default list sorted like a detected one
FinalDefaultSorted(set) ==
    IF Len(set) > 0 THEN SortedModules(set) ELSE JsSort(DEFAULT_MODULES_LIST)

\* 'Determine final module list'
FinalModuleList(set) ==
    IF Len(set) > 0 THEN SortedModules(set) ELSE DEFAULT_MODULES_LIST

\* A run of the analyzer with nothing given and an empty working directory
NoInput ==
    [given |-> FALSE, path |-> <<>>, kind |-> "missing", dirList |-> <<>>,
     jarsDir |-> "absent", jarsList |-> <<>>, cwdList |-> <<>>]

AInit(inputs) ==
    /\ apc = "discover"
    /\ ainput \in inputs
    /\ jarFiles = <<>>
    /\ jdkFound = FALSE
    /\ aidx = 0
    /\ allModules = <<>>
    /\ jarResults = <<>>
    /\ finalModules = <<>>
    /\ modSource = "none"
    /\ written = {}
    /\ aexit = -1

\* const jarFiles = findJarFiles(JAR_INPUT): the JARs found, or exit(1)
Discover ==
    /\ apc = "discover"
    /\ LET found == findJarFiles(ainput)
       IN  IF found.exit
           THEN /\ apc' = "exit"
                /\ aexit' = 1
                /\ UNCHANGED jarFiles
           ELSE /\ apc' = "findjdk"
                /\ jarFiles' = found.jars
                /\ UNCHANGED aexit
    /\ UNCHANGED <<ainput, jdkFound, aidx, allModules, jarResults, finalModules,
                   modSource, written>>
    /\ UNCHANGED <<bvars, dvars, pvars, jd, jv, fj>>

\* const jdkPath = findJDK()
FindJdk ==
    /\ apc = "findjdk"
    /\ \E found \in BOOLEAN :
        /\ jdkFound' = found
        /\ apc' = IF found THEN "analyze" ELSE "finalize"
    /\ UNCHANGED <<ainput, jarFiles, aidx, allModules, jarResults, finalModules,
                   modSource, written, aexit>>
    /\ UNCHANGED <<bvars, dvars, pvars, jd, jv, fj>>

\* one iteration of jarFiles.forEach in main
AnalyzeOne ==
    /\ apc = "analyze"
    /\ aidx < Len(jarFiles)
    /\ \E versioned \in ToolResults, plain \in ToolResults :
        LET r == analyzeJAR(versioned, plain)
            jarName == jarFiles[aidx + 1]
        IN  IF ~r.isNull /\ Len(r.modules) > 0
            THEN /\ allModules' = AddAll(allModules, r.modules)
                 /\ jarResults' = Append(jarResults,
                        [jar |-> jarName, modules |-> r.modules, success |-> TRUE])
            ELSE /\ UNCHANGED allModules
                 /\ jarResults' = Append(jarResults,
                        [jar |-> jarName, modules |-> <<>>, success |-> FALSE])
    /\ aidx' = aidx + 1
    /\ apc' = IF aidx + 1 = Len(jarFiles) THEN "finalize" ELSE "analyze"
    /\ UNCHANGED <<ainput, jarFiles, jdkFound, finalModules, modSource, written, aexit>>
    /\ UNCHANGED <<bvars, dvars, pvars, jd, jv, fj>>

\* main from "Determine final module list" to its end
Finalize ==
    /\ apc = "finalize"
    /\ LET fm == FinalModuleList(allModules)
           outputFile == IF Len(jarFiles) > 1 THEN CombinedName
                         ELSE BaseName(jarFiles[1]) \o ModulesSuffix
       IN  /\ finalModules' = fm
           /\ modSource' = IF Len(allModules) > 0 THEN "jdeps" ELSE "default"
           /\ written' = {w \in written : w.name # outputFile}
                            \cup {[name |-> outputFile, content |-> Join(fm)]}
    /\ apc' = "done"
    /\ aexit' = 0
    /\ UNCHANGED <<ainput, jarFiles, jdkFound, aidx, allModules, jarResults>>
    /\ UNCHANGED <<bvars, dvars, pvars, jd, jv, fj>>

\* what main prints under 'Per-JAR Results:'
PerJarResults == IF Len(jarFiles) > 1 /\ jdkFound THEN jarResults ELSE <<>>

ANext == Discover \/ FindJdk \/ AnalyzeOne \/ Finalize

-----------------------------------------------------------------------------
(* build-jre-all-platforms.js *)

\* ---- the JDK version (lines 16-50)

MaxDirs == 3

JdkDash == <<"j", "d", "k", "-">>

\* The entries jdk-downloads may hold.
JdkNames ==
    { JdkDash \o <<"1", "7", "-", "x", "6", "4">>,
      JdkDash \o <<"2", "1", "-", "x", "6", "4">>,
      JdkDash \o <<"9">>,
      JdkDash \o <<"0", "1", "7">>,
      JdkDash \o <<"x", "6", "4">>,
      <<"j", "d", "k", "1", "7">> }

JdkEntries == [name : JdkNames, isDir : BOOLEAN]

\* fs.readdirSync(JDK_DIR): entries of distinct names, in any order
JdkListings ==
    {s \in UNION {[1..n -> JdkEntries] : n \in 0..MaxDirs} :
        \A i, j \in 1..Len(s) : i # j => s[i].name # s[j].name}

\* the values of process.env.JDK_VERSION
JdkEnvValues ==
    { [set |-> FALSE, value |-> <<>>],
      [set |-> TRUE, value |-> <<>>],
      [set |-> TRUE, value |-> <<"1", "7">>],
      [set |-> TRUE, value |-> <<"1", "1">>] }

NoVersion == [isNull |-> TRUE, value |-> <<>>]
Version(v) == [isNull |-> FALSE, value |-> v]

Digits == {"0", "1", "2", "3", "4", "5", "6", "7", "8", "9"}

\* parseInt of a string of decimal digits
RECURSIVE parseInt(_)
parseInt(s) ==
    IF s = <<>> THEN 0
    ELSE 10 * parseInt(SubSeq(s, 1, Len(s) - 1))
            + (CharCode(s[Len(s)]) - CharCode("0"))

\* the longest prefix of decimal digits: (\d+) of the pattern
RECURSIVE LeadingDigits(_)
LeadingDigits(s) ==
    IF s # <<>> /\ Head(s) \in Digits
    THEN <<Head(s)>> \o LeadingDigits(Tail(s)) ELSE <<>>

\* dir.match(/^jdk-(\d+)/): match[1], or <<>> when there is no match
MatchVersion(dir) ==
    IF StartsWith(dir, JdkDash)
    THEN LeadingDigits(SubSeq(dir, Len(JdkDash) + 1, Len(dir))) ELSE <<>>

\* versions.add(match[1]) for each matching directory: a Set keeps the order
\* of first insertion
RECURSIVE AddVersions(_, _)
AddVersions(acc, dirs) ==
    IF dirs = <<>> THEN acc
    ELSE LET v == MatchVersion(Head(dirs).name)
         IN  AddVersions(IF v # <<>> /\ v \notin Range(acc) THEN Append(acc, v)
                         ELSE acc, Tail(dirs))

\* Array.prototype.sort((a, b) => parseInt(b) - parseInt(a)), a stable sort
RECURSIVE InsertDescending(_, _)
InsertDescending(sorted, v) ==
    IF sorted = <<>> THEN <<v>>
    ELSE IF parseInt(Head(sorted)) >= parseInt(v)
         THEN <<Head(sorted)>> \o InsertDescending(Tail(sorted), v)
         ELSE <<v>> \o sorted

RECURSIVE SortDescending(_)
SortDescending(a) ==
    IF a = <<>> THEN <<>>
    ELSE InsertDescending(SortDescending(SubSeq(a, 1, Len(a) - 1)), a[Len(a)])

\* the same function with the versions ordered as strings, greatest first
DetectLexicographic(dirExists, entries) ==
    IF ~dirExists THEN NoVersion
    ELSE LET dirs == SelectSeq(entries,
                        LAMBDA d : d.isDir /\ StartsWith(d.name, JdkDash))
             versions == AddVersions(<<>>, dirs)
             sorted == JsSort(versions)
         IN  IF Len(dirs) = 0 \/ Len(versions) = 0 THEN NoVersion
             ELSE Version(sorted[Len(sorted)])

detectAvailableJDK(dirExists, entries) ==
    IF ~dirExists THEN NoVersion
    ELSE LET dirs == SelectSeq(entries,
                        LAMBDA d : d.isDir /\ StartsWith(d.name, JdkDash))
             versions == AddVersions(<<>>, dirs)
             availableVersions == SortDescending(versions)
         IN  IF Len(dirs) = 0 THEN NoVersion
             ELSE IF Len(versions) = 0 THEN NoVersion
             ELSE Version(availableVersions[1])

\* const JDK_VERSION = process.env.JDK_VERSION || detectAvailableJDK() || '21'
JDK_VERSION(env, dirExists, entries) ==
    IF env.set /\ env.value # <<>> THEN env.value
    ELSE LET detected == detectAvailableJDK(dirExists, entries)
         IN  IF ~detected.isNull /\ detected.value # <<>> THEN detected.value
             ELSE <<"2", "1">>

VIdle ==
    jv = [pc |-> "idle", env |-> [set |-> FALSE, value |-> <<>>],
          dirExists |-> FALSE, entries |-> <<>>, JDK_VERSION |-> <<>>]

\* The script is loaded with every value of the variable and every state of
\* jdk-downloads.
VInit ==
    /\ jv \in [pc : {"load"}, env : JdkEnvValues, dirExists : BOOLEAN,
               entries : JdkListings, JDK_VERSION : {<<>>}]
    /\ ~jv.dirExists => jv.entries = <<>>

\* line 50
LoadVersion ==
    /\ jv.pc = "load"
    /\ jv' = [jv EXCEPT !.JDK_VERSION = JDK_VERSION(jv.env, jv.dirExists, jv.entries),
                        !.pc = "loaded"]
    /\ UNCHANGED <<avars, bvars, dvars, pvars, jd, fj>>

VNext == LoadVersion

\* const DEFAULT_MODULES = 'java.base,java.desktop,...'
DEFAULT_MODULES == Join(DEFAULT_MODULES_LIST)

CustomName == <<"c","u","s","t","o","m">> \o ModulesSuffix
AppName == <<"a","p","p">> \o ModulesSuffix
NotesName == <<"n","o","t","e","s",".","t","x","t">>

\* The files the working directory may hold.
FileNames == {CustomName, AppName, CombinedName, NotesName}

\* What a module file may hold.
FileContents ==
    { <<" ", "\n">>,
      <<" ">> \o Join(<<base, xml>>) \o <<"\n">>,
      Join(<<base, sql>>) }

\* Modification times are 1..MaxMtime.
MaxMtime == 2

\* Values of the MODULES environment variable: unset, empty, a module list.
EnvValues ==
    { [set |-> FALSE, value |-> <<>>],
      [set |-> TRUE, value |-> <<>>],
      [set |-> TRUE, value |-> <<" ">>],
      [set |-> TRUE, value |-> java_base] }

\* JavaScript truthiness of process.env.MODULES
EnvTruthy(env) == env.set /\ env.value # <<>>

\* Stable insertion of f into a list sorted by (a, b) => statsB.mtimeMs - statsA.mtimeMs
RECURSIVE InsertByMtime(_, _)
InsertByMtime(a, f) ==
    IF a = <<>> THEN <<f>>
    ELSE IF f.mtime > Head(a).mtime THEN <<f>> \o a
    ELSE <<Head(a)>> \o InsertByMtime(Tail(a), f)

RECURSIVE SortByMtime(_)
SortByMtime(a) ==
    IF a = <<>> THEN <<>>
    ELSE InsertByMtime(SortByMtime(SubSeq(a, 1, Len(a) - 1)), a[Len(a)])

RECURSIVE FilterModuleFiles(_)
FilterModuleFiles(a) ==
    IF a = <<>> THEN <<>>
    ELSE (IF EndsWith(Head(a).name, ModulesSuffix) THEN <<Head(a)>> ELSE <<>>)
            \o FilterModuleFiles(Tail(a))

\* the list sorted oldest first instead of newest first
AutoOldestFirst(files) ==
    LET s == SortByMtime(FilterModuleFiles(files))
    IN  [i \in 1..Len(s) |-> s[Len(s) + 1 - i]]

\* const autoModuleFiles = fs.readdirSync(cwd).filter(...).sort(...)
autoModuleFiles(files) == SortByMtime(FilterModuleFiles(files))

FromDefault == [m |-> DEFAULT_MODULES, src |-> [kind |-> "default", name |-> <<>>]]
FromFile(f) == [m |-> Trim(f.content), src |-> [kind |-> "file", name |-> f.name]]

\* the first block left out: auto-generated files are never read
AutoIgnored(files, env) == FromDefault

\* if (autoModuleFiles.length > 0 && !process.env.MODULES) { ... }
\* (the console.log of the block reads colors before its declaration; the
\*  ReferenceError is caught by the block's catch, after the assignments)
AutoBlock(files, env) ==
    LET auto == autoModuleFiles(files)
    IN  IF Len(auto) > 0 /\ ~EnvTruthy(env) /\ Trim(auto[1].content) # <<>>
        THEN FromFile(auto[1])
        ELSE FromDefault

\* the block guarded by the auto files being absent: custom-modules.txt is
\* read only when nothing was auto-detected
CustomOnlyWithoutAuto(files, env, sofar) ==
    IF sofar.src.kind = "default"
       /\ \E i \in 1..Len(files) : files[i].name = CustomName
       /\ ~EnvTruthy(env)
    THEN LET f == files[CHOOSE i \in 1..Len(files) : files[i].name = CustomName]
         IN  IF Trim(f.content) # <<>> THEN FromFile(f) ELSE sofar
    ELSE sofar

\* the block without its test of the trimmed content
CustomBlockUnchecked(files, env, sofar) ==
    IF (\E i \in 1..Len(files) : files[i].name = CustomName) /\ ~EnvTruthy(env)
    THEN FromFile(files[CHOOSE i \in 1..Len(files) : files[i].name = CustomName])
    ELSE sofar

\* if (fs.existsSync('custom-modules.txt') && !process.env.MODULES) { ... }
CustomBlock(files, env, sofar) ==
    IF (\E i \in 1..Len(files) : files[i].name = CustomName) /\ ~EnvTruthy(env)
    THEN LET f == files[CHOOSE i \in 1..Len(files) : files[i].name = CustomName]
         IN  IF Trim(f.content) # <<>> THEN FromFile(f) ELSE sofar
    ELSE sofar

\* The six builders of main, in the order of the object literal.
Builders ==
    << [key |-> "windows-x64",   name |-> "Windows x64",   out |-> "jre-win-x64"],
       [key |-> "windows-arm64", name |-> "Windows ARM64", out |-> "jre-win-arm64"],
       [key |-> "macos-x64",     name |-> "macOS x64",     out |-> "jre-mac-x64"],
       [key |-> "macos-arm64",   name |-> "macOS ARM64",   out |-> "jre-mac-arm64"],
       [key |-> "linux-x64",     name |-> "Linux x64",     out |-> "jre-linux-x64"],
       [key |-> "linux-arm64",   name |-> "Linux ARM64",   out |-> "jre-linux-arm64"] >>

BuilderKeys == {Builders[i].key : i \in 1..Len(Builders)}

\* The platform argument of a run: none, a builder's key, or something else.
ArgvValues ==
    { [given |-> FALSE, key |-> ""],
      [given |-> TRUE, key |-> "linux-x64"],
      [given |-> TRUE, key |-> "macos-arm64"],
      [given |-> TRUE, key |-> "solaris-x64"] }

\* The JDK directory of a platform: missing, without jlink, with jlink.
JdkStates == {"absent", "nojlink", "ok"}
\* The output path of a platform: missing, a directory without the java
\* binary, a directory with bin/java or bin/java.exe.
OutStates == {"absent", "nojava", "valid"}
\* spawnSync(jlink): result.error, a non-zero status, or status 0 having
\* created nothing, an image without the java binary, or an image with it.
LinkOutcomes == {"spawnerror", "nonzero", "zero_nodir", "zero_nojava", "zero_valid"}

NoBuild ==
    [platform |-> "", jdk |-> "absent", preOut |-> "absent", removed |-> FALSE,
     atLink |-> "none", invoked |-> FALSE, modules |-> <<>>, postOut |-> "absent",
     ret |-> "none"]

\* checkJdk(platform, jdkPath)
checkJdk(jdk) == jdk = "ok"

\* getJlinkPath(jdkPath) !== null
getJlinkPath(jdk) == jdk = "ok"

\* What is at outputPath after jlink ran with that outcome.
AfterLink(outcome) ==
    CASE outcome = "zero_valid" -> "valid"
      [] outcome = "zero_nojava" -> "nojava"
      [] OTHER -> "absent"

\* the check after jlink: fs.existsSync(outputPath)
OutputCreated(post) == post # "absent"

\* buildJre returning true whatever jlink's status was
LinkStatusIgnored(outcome, post) == outcome # "spawnerror" /\ OutputCreated(post)

\* buildJre's verdict once spawnSync returned without result.error
LinkSucceeded(outcome, post) ==
    outcome \notin {"spawnerror", "nonzero"} /\ OutputCreated(post)

\* outputPath left as it is before jlink runs
RemoveSkipped(pre) == pre

\* if (fs.existsSync(outputPath)) fs.rmSync(outputPath, ...): what is at
\* outputPath afterwards
RemoveExisting(pre) == IF pre # "absent" THEN "absent" ELSE pre

\* buildJre(platform, jdkPath, outputName)
buildJre(key, jdk, pre, rmThrows, outcome, modules) ==
    LET b == [NoBuild EXCEPT !.platform = key, !.jdk = jdk, !.preOut = pre,
                            !.postOut = pre]
    IN  IF ~getJlinkPath(jdk) THEN [b EXCEPT !.ret = "false"]
        ELSE IF pre # "absent" /\ rmThrows THEN [b EXCEPT !.ret = "threw"]
        ELSE LET post == AfterLink(outcome)
             IN  [b EXCEPT !.removed = (RemoveExisting(pre) # pre),
                           !.atLink = RemoveExisting(pre),
                           !.invoked = TRUE,
                           !.modules = modules,
                           !.postOut = post,
                           !.ret = IF LinkSucceeded(outcome, post)
                                   THEN "true" ELSE "false"]

\* a builder with neither check of the JDK: the output is removed and jlink
\* is run whatever is at jdkPath
BuilderUnchecked(key, jdk, pre, rmThrows, outcome, modules) ==
    [NoBuild EXCEPT !.platform = key, !.jdk = jdk, !.preOut = pre,
                    !.removed = (pre # "absent"), !.atLink = "absent",
                    !.invoked = TRUE, !.modules = modules, !.postOut = AfterLink(outcome),
                    !.ret = IF LinkSucceeded(outcome, AfterLink(outcome))
                            THEN "true" ELSE "false"]

\* buildWindowsX64 .. buildLinuxARM64
builderFn(key, jdk, pre, rmThrows, outcome, modules) ==
    IF ~checkJdk(jdk)
    THEN [NoBuild EXCEPT !.platform = key, !.jdk = jdk, !.preOut = pre,
                         !.postOut = pre, !.ret = "false"]
    ELSE buildJre(key, jdk, pre, rmThrows, outcome, modules)

\* process.exit(successCount === totalCount ? 0 : 1) with the test dropped
ExitAlwaysZero(res) == 0

\* process.exit(successCount === totalCount ? 0 : 1)
SummaryExit(res) ==
    IF Cardinality({i \in 1..Len(res) : res[i].success}) = Len(res) THEN 0 ELSE 1

\* What the working directory may hold of one name: a module file has any
\* content and time, the other file is fixed.
FileEntries ==
    [name : FileNames \ {NotesName}, content : FileContents, mtime : 1..MaxMtime]
        \cup {[name |-> NotesName, content |-> <<"x">>, mtime |-> 1]}

\* The directory listings: the orderings of files of distinct names
FileLists ==
    {s \in UNION {[1..n -> FileEntries] : n \in 0..Cardinality(FileNames)} :
        \A i, j \in 1..Len(s) : i # j => s[i].name # s[j].name}

BIdle ==
    /\ bpc = "idle"
    /\ envMODULES = [set |-> FALSE, value |-> <<>>]
    /\ cwdFiles = <<>>
    /\ MODULES = DEFAULT_MODULES
    /\ modulesSource = [kind |-> "default", name |-> <<>>]
    /\ sourceLog = <<>>
    /\ argvPlatform = [given |-> FALSE, key |-> ""]
    /\ jdkDirExists = FALSE
    /\ bidx = 0
    /\ results = <<>>
    /\ lastBuild = NoBuild
    /\ bexit = -1

\* The lines of the three console.log calls of the resolution and of the
\* declaration const colors.
AutoLogLine == 76
CustomLogLine == 90
EnvLogLine == 101
ColorsLine == 105

\* Whether the top-level statement at that line can read colors: the binding
\* is uninitialized until its declaration has run.
ReadsColors(line) == line > ColorsLine

\* console.log(`${colors.blue}[TAG]...`) at that line: the template literal
\* is evaluated first, and a ReferenceError of it leaves nothing printed
ConsoleLog(printed, line, tag) ==
    IF ReadsColors(line) THEN Append(printed, tag) ELSE printed

\* The top-level statements of the script, lines 50-111.
LoadModule ==
    /\ bpc = "load"
    /\ LET auto == AutoBlock(cwdFiles, envMODULES)
           sel == CustomBlock(cwdFiles, envMODULES, auto)
           logAuto == IF auto.src.kind = "file"
                      THEN ConsoleLog(<<>>, AutoLogLine, "AUTO") ELSE <<>>
           logCustom == IF sel.src.kind = "file" /\ sel.src.name = CustomName
                        THEN ConsoleLog(logAuto, CustomLogLine, "CUSTOM")
                        ELSE logAuto
       IN  IF EnvTruthy(envMODULES)
           THEN \* line 101 reads colors, declared at line 105: ReferenceError,
                \* uncaught, after the two assignments
                /\ MODULES' = envMODULES.value
                /\ modulesSource' = [kind |-> "env", name |-> <<>>]
                /\ sourceLog' = ConsoleLog(logCustom, EnvLogLine, "ENV")
                /\ bpc' = "exited"
                /\ bexit' = 1
           ELSE /\ MODULES' = sel.m
                /\ modulesSource' = sel.src
                /\ sourceLog' = logCustom
                /\ bpc' = "main"
                /\ UNCHANGED bexit
    /\ UNCHANGED <<envMODULES, cwdFiles, argvPlatform, jdkDirExists, bidx,
                   results, lastBuild>>
    /\ UNCHANGED <<avars, dvars, pvars, jd, jv, fj>>

\* main up to the choice between one platform and all
MainStart ==
    /\ bpc = "main"
    /\ IF ~jdkDirExists
       THEN bpc' = "exited" /\ bexit' = 1
       ELSE IF argvPlatform.given
            THEN IF argvPlatform.key \notin BuilderKeys
                 THEN bpc' = "exited" /\ bexit' = 1
                 ELSE bpc' = "single" /\ UNCHANGED bexit
            ELSE bpc' = "all" /\ UNCHANGED bexit
    /\ UNCHANGED <<envMODULES, cwdFiles, MODULES, modulesSource, sourceLog,
                   argvPlatform,
                   jdkDirExists, bidx, results, lastBuild>>
    /\ UNCHANGED <<avars, dvars, pvars, jd, jv, fj>>

\* const success = builders[platform].fn(); process.exit(success ? 0 : 1)
\* (an exception of fn rejects main, whose catch exits with 1)
BuildSingle(J, O, X, T) ==
    /\ bpc = "single"
    /\ \E jdk \in J, pre \in O, rmThrows \in X, outcome \in T :
        LET b == builderFn(argvPlatform.key, jdk, pre, rmThrows, outcome, MODULES)
        IN  /\ lastBuild' = b
            /\ bexit' = IF b.ret = "true" THEN 0 ELSE 1
    /\ bpc' = "exited"
    /\ UNCHANGED <<envMODULES, cwdFiles, MODULES, modulesSource, sourceLog,
                   argvPlatform,
                   jdkDirExists, bidx, results>>
    /\ UNCHANGED <<avars, dvars, pvars, jd, jv, fj>>

\* one iteration of the loop over Object.entries(builders)
BuildNext(J, O, X, T) ==
    /\ bpc = "all"
    /\ bidx < Len(Builders)
    /\ \E jdk \in J, pre \in O, rmThrows \in X, outcome \in T :
        LET b == builderFn(Builders[bidx + 1].key, jdk, pre, rmThrows, outcome, MODULES)
        IN  /\ lastBuild' = b
            /\ results' = Append(results, [name |-> Builders[bidx + 1].name,
                                           success |-> (b.ret = "true")])
    /\ bidx' = bidx + 1
    /\ UNCHANGED <<bpc, envMODULES, cwdFiles, MODULES, modulesSource, sourceLog,
                   argvPlatform,
                   jdkDirExists, bexit>>
    /\ UNCHANGED <<avars, dvars, pvars, jd, jv, fj>>

\* main from "Summary" to process.exit
Summary ==
    /\ bpc = "all"
    /\ bidx = Len(Builders)
    /\ bpc' = "exited"
    /\ bexit' = SummaryExit(results)
    /\ UNCHANGED <<envMODULES, cwdFiles, MODULES, modulesSource, sourceLog,
                   argvPlatform,
                   jdkDirExists, bidx, results, lastBuild>>
    /\ UNCHANGED <<avars, dvars, pvars, jd, jv, fj>>

-----------------------------------------------------------------------------
(* create-portable.js *)

\* const platforms = [...] of main, with the archive each one gets
platforms ==
    << [platform |-> "windows", arch |-> "x64",   jreName |-> "jre-win-x64"],
       [platform |-> "macos",   arch |-> "x64",   jreName |-> "jre-mac-x64"],
       [platform |-> "macos",   arch |-> "arm64", jreName |-> "jre-mac-arm64"],
       [platform |-> "linux",   arch |-> "x64",   jreName |-> "jre-linux-x64"],
       [platform |-> "linux",   arch |-> "arm64", jreName |-> "jre-linux-arm64"] >>

\* `${platform}-${arch}`, kept as the pair of its parts
TargetName(pl) == <<pl.platform, pl.arch>>

\* The platform argument of a run: none, or a name.
PArgvValues ==
    { [given |-> FALSE, key |-> <<>>],
      [given |-> TRUE, key |-> <<"windows", "x64">>],
      [given |-> TRUE, key |-> <<"windows", "arm64">>],
      [given |-> TRUE, key |-> <<"linux", "arm64">>],
      [given |-> TRUE, key |-> <<"solaris", "x64">>] }

\* JAR_FILES holds at most this many paths.
MaxPkgJars == 2

\* The package directory and the archive of a target before a call: missing,
\* or left by an earlier run.
PkgPreStates == {"absent", "old"}
\* What the steps after the checks do: a copy or write throws, the archiver
\* reports an error, or the archive is written and closed.
PkgOutcomes == {"copy_throws", "archive_error", "ok"}

NoPkg ==
    [target |-> <<>>, jre |-> FALSE, jars |-> 0, preDir |-> "absent",
     preArchive |-> "absent", postDir |-> "absent", postArchive |-> "absent",
     format |-> "none", attempted |-> FALSE, ret |-> "none"]

\* platform === 'windows' ? createZipArchive : createTarGzArchive
ArchiveFormat(platform) == IF platform = "windows" THEN "zip" ELSE "tar.gz"

\* createPortablePackage without the check of JAR_FILES
PackageWithoutJarCheck(pl, jre, jars, preDir, preArchive, outcome) ==
    LET c == [NoPkg EXCEPT !.target = TargetName(pl), !.jre = jre, !.jars = jars,
                           !.preDir = preDir, !.preArchive = preArchive,
                           !.postDir = preDir, !.postArchive = preArchive]
    IN  IF ~jre THEN [c EXCEPT !.ret = "false"]
        ELSE IF outcome = "copy_throws"
        THEN [c EXCEPT !.attempted = TRUE, !.postDir = "partial", !.ret = "threw"]
        ELSE IF outcome = "archive_error"
        THEN [c EXCEPT !.attempted = TRUE, !.postDir = "new",
                       !.postArchive = "partial",
                       !.format = ArchiveFormat(pl.platform), !.ret = "false"]
        ELSE [c EXCEPT !.attempted = TRUE, !.postDir = "new", !.postArchive = "new",
                       !.format = ArchiveFormat(pl.platform), !.ret = "true"]

\* createPortablePackage(platform, arch, jreName), given whether the JRE
\* directory of the platform exists, JAR_FILES.length, what is at pkgDir and
\* at the archive path, and what the steps after the checks do
createPortablePackage(pl, jre, jars, preDir, preArchive, outcome) ==
    LET c == [NoPkg EXCEPT !.target = TargetName(pl), !.jre = jre, !.jars = jars,
                           !.preDir = preDir, !.preArchive = preArchive,
                           !.postDir = preDir, !.postArchive = preArchive]
    IN  IF ~jre THEN [c EXCEPT !.ret = "false"]
        ELSE IF jars = 0 THEN [c EXCEPT !.ret = "false"]
        ELSE IF outcome = "copy_throws"
        THEN [c EXCEPT !.attempted = TRUE, !.postDir = "partial", !.ret = "threw"]
        ELSE IF outcome = "archive_error"
        THEN [c EXCEPT !.attempted = TRUE, !.postDir = "new",
                       !.postArchive = "partial",
                       !.format = ArchiveFormat(pl.platform), !.ret = "false"]
        ELSE [c EXCEPT !.attempted = TRUE, !.postDir = "new", !.postArchive = "new",
                       !.format = ArchiveFormat(pl.platform), !.ret = "true"]

\* checkPrerequisites()
checkPrerequisites(jreDir, jars) == jreDir /\ jars > 0

\* the platforms whose `${platform}-${arch}` is the target
Matching(target) == {i \in 1..Len(platforms) : TargetName(platforms[i]) = target}

\* the archives in portable-releases after a call
ArchivesAfter(set, c) ==
    IF c.postArchive = "new"
    THEN set \cup {[target |-> c.target, format |-> c.format]}
    ELSE set

PIdle ==
    /\ ppc = "idle"
    /\ pargv = [given |-> FALSE, key |-> <<>>]
    /\ jreDirExists = FALSE
    /\ jarCount = 0
    /\ pidx = 0
    /\ presults = <<>>
    /\ archives = {}
    /\ lastPkg = NoPkg
    /\ pexit = -1

\* main up to the choice between one platform and all
PMainStart ==
    /\ ppc = "main"
    /\ IF ~checkPrerequisites(jreDirExists, jarCount)
       THEN ppc' = "exited" /\ pexit' = 1
       ELSE IF pargv.given
            THEN IF Matching(pargv.key) = {}
                 THEN ppc' = "exited" /\ pexit' = 1
                 ELSE ppc' = "single" /\ UNCHANGED pexit
            ELSE ppc' = "all" /\ UNCHANGED pexit
    /\ UNCHANGED <<pargv, jreDirExists, jarCount, pidx, presults, archives, lastPkg>>
    /\ UNCHANGED <<avars, bvars, dvars, jd, jv, fj>>

\* const success = await createPortablePackage(...); process.exit(success ? 0 : 1)
\* (an exception rejects main, whose catch exits with 1)
PackageSingle ==
    /\ ppc = "single"
    /\ \E jre \in BOOLEAN, preDir \in PkgPreStates, preArchive \in PkgPreStates,
          outcome \in PkgOutcomes :
        LET i == CHOOSE k \in Matching(pargv.key) : \A m \in Matching(pargv.key) : k <= m
            c == createPortablePackage(platforms[i], jre, jarCount, preDir,
                                       preArchive, outcome)
        IN  /\ lastPkg' = c
            /\ archives' = ArchivesAfter(archives, c)
            /\ pexit' = IF c.ret = "true" THEN 0 ELSE 1
    /\ ppc' = "exited"
    /\ UNCHANGED <<pargv, jreDirExists, jarCount, pidx, presults>>
    /\ UNCHANGED <<avars, bvars, dvars, jd, jv, fj>>

\* one iteration of the loop over platforms, with its try and catch
PackageNext ==
    /\ ppc = "all"
    /\ pidx < Len(platforms)
    /\ \E jre \in BOOLEAN, preDir \in PkgPreStates, preArchive \in PkgPreStates,
          outcome \in PkgOutcomes :
        LET c == createPortablePackage(platforms[pidx + 1], jre, jarCount, preDir,
                                       preArchive, outcome)
        IN  /\ lastPkg' = c
            /\ archives' = ArchivesAfter(archives, c)
            /\ presults' = Append(presults, [name |-> c.target,
                                             success |-> (c.ret = "true")])
    /\ pidx' = pidx + 1
    /\ UNCHANGED <<ppc, pargv, jreDirExists, jarCount, pexit>>
    /\ UNCHANGED <<avars, bvars, dvars, jd, jv, fj>>

\* main from 'Build Summary' to process.exit
PSummary ==
    /\ ppc = "all"
    /\ pidx = Len(platforms)
    /\ ppc' = "exited"
    /\ pexit' = SummaryExit(presults)
    /\ UNCHANGED <<pargv, jreDirExists, jarCount, pidx, presults, archives, lastPkg>>
    /\ UNCHANGED <<avars, bvars, dvars, jd, jv, fj>>

\* createPortablePackage called by a program that loaded the module with
\* require (module.exports), main not having run
CallPackage ==
    /\ ppc = "required"
    /\ \E i \in 1..Len(platforms), jre \in BOOLEAN, preDir \in PkgPreStates,
          preArchive \in PkgPreStates, outcome \in PkgOutcomes :
        LET c == createPortablePackage(platforms[i], jre, jarCount, preDir,
                                       preArchive, outcome)
        IN  /\ lastPkg' = c
            /\ archives' = ArchivesAfter(archives, c)
    /\ UNCHANGED <<ppc, pargv, jreDirExists, jarCount, pidx, presults, pexit>>
    /\ UNCHANGED <<avars, bvars, dvars, jd, jv, fj>>

-----------------------------------------------------------------------------
(* download-jdks.js *)

\* The keys of PLATFORMS, in the order of the object literal.
DPlatforms ==
    <<"windows-x64", "windows-arm64", "macos-x64", "macos-arm64",
      "linux-x64", "linux-arm64">>

PIdx == 1..Len(DPlatforms)

\* 1024 * 1024: an archive smaller than this is downloaded again
MinArchiveBytes == 1048576

\* An archive on the server is ArchiveChunks chunks of ChunkBytes bytes.
ChunkBytes == 524288
ArchiveChunks == 3
ArchiveBytes == ArchiveChunks * ChunkBytes

\* A download follows at most this many redirects.
MaxRedirects == 1
\* At most this many platforms have leftovers at the start or hit a fault.
MaxAnomalies == 1
\* The downloader is invoked at most this many times.
MaxRuns == 2
\* At most this many invocations are interrupted.
MaxKills == 1

\* The archive file of a platform: missing, or size bytes of the server's
\* archive, which holds a JDK with jlink ("good") or does not ("bad").
NoArchive == [exists |-> FALSE, size |-> 0, kind |-> "good"]
Archive(size, kind) == [exists |-> TRUE, size |-> size, kind |-> kind]

Complete(a) == a.exists /\ a.size = ArchiveBytes

ArchiveStates ==
    {NoArchive} \cup {Archive(k * ChunkBytes, "good") : k \in 0..ArchiveChunks}
                \cup {Archive(ArchiveBytes, "bad")}

\* final: the directory jdk-<version>-<platform> is missing, lacks the
\* target's jlink ("invalid"), or holds it ("valid"); temp: the directory
\* jdk-<version>-<platform>-temp exists.
Fresh == [final |-> "absent", archive |-> NoArchive, temp |-> FALSE]

PreStates == [final : {"absent", "invalid", "valid"}, archive : ArchiveStates,
              temp : BOOLEAN]

\* outcome: "cached" (Already exists and verified), "ready" (Ready at),
\* "download_failed", "extract_failed"; requested: protocol.get was called;
\* skipped: 'Archive already downloaded'; dlError: how downloadFile failed.
\* reextract: 'Existing installation invalid, re-extracting...' was printed.
NoLog ==
    [outcome |-> "pending", requested |-> FALSE, skipped |-> FALSE,
     dlError |-> "none", reextract |-> FALSE]

NoSummary == [banner |-> FALSE, failed |-> {}]

\* an archive is taken as downloaded only when it is complete
NeedsDownloadUnlessComplete(a) == ~Complete(a)

\* !fs.existsSync(archivePath) || fs.statSync(archivePath).size < 1024 * 1024
NeedsDownload(a) == ~a.exists \/ a.size < MinArchiveBytes

\* fs.createWriteStream(dest): the file exists and is empty
CreateWriteStream == Archive(0, "good")

\* extractZip / extractTarGz and config.jdkPath(extractDir): the extractor
\* throws on a truncated archive; otherwise the JDK root holds the target's
\* jlink ("ok") or does not ("nojlink")
Unpack(a) ==
    IF ~Complete(a) THEN "threw"
    ELSE IF a.kind = "good" THEN "ok" ELSE "nojlink"

\* the move made without looking for jlink
JlinkUnchecked(tree) == TRUE

\* 'Verify jlink exists': fs.existsSync(jlinkPath) in the unpacked root
JlinkVerified(tree) == tree = "ok"

\* the try block of downloadAndExtractPlatform reaches 'Ready at': the
\* archive unpacks, the JDK root is found and holds the target's jlink
ExtractionSucceeds(a) == Unpack(a) # "threw" /\ JlinkVerified(Unpack(a))

\* fs.renameSync(jdkPath, finalDir): the directory holds what was unpacked
Moved(tree) == IF tree = "ok" THEN "valid" ELSE "invalid"

\* the catch block keeping the extraction directory
CleanupSkipped(f) == f

\* if (fs.existsSync(extractDir)) fs.rmSync(extractDir, ...)
CleanupTemp(f) == [f EXCEPT !.temp = FALSE]

\* fs.existsSync(finalDir) && fs.existsSync(jlinkPath): 'Already exists and verified'
FinalVerified(f) == f.final = "valid"

\* the invalid installation left in place
InvalidKept(f) == f

\* 'Existing installation invalid, re-extracting...': fs.rmSync(finalDir)
\* (a missing directory stays missing)
RemoveInvalid(f) == [f EXCEPT !.final = "absent"]

\* main marking no platform as failed and exiting with 0
MainEnd(log) == [summary |-> [banner |-> TRUE, failed |-> {}], status |-> 0]

DIdle ==
    /\ dpc = "idle"
    /\ didx = 0
    /\ dfs = [p \in PIdx |-> Fresh]
    /\ dlog = [p \in PIdx |-> NoLog]
    /\ redirects = 0
    /\ dsummary = NoSummary
    /\ dexit = -1
    /\ druns = 0
    /\ dfaults = 0
    /\ dkills = 0

\* downloadAndExtractPlatform returns: the loop of main goes on
Returned(p, f, l) ==
    /\ dfs' = [dfs EXCEPT ![p] = f]
    /\ dlog' = [dlog EXCEPT ![p] = l]
    /\ didx' = didx + 1
    /\ dpc' = "start"

\* downloadFile rejects: the catch around it prints 'Download failed' and returns
DownloadFailed(p, how) ==
    /\ Returned(p, [dfs[p] EXCEPT !.archive = NoArchive],
                [dlog[p] EXCEPT !.outcome = "download_failed", !.dlError = how])
    /\ dfaults' = dfaults + 1
    /\ redirects' = 0
    /\ UNCHANGED <<dsummary, dexit, druns, dkills>>
    /\ UNCHANGED <<avars, bvars, pvars, jd, jv, fj>>

\* downloadAndExtractPlatform from its start to the call of protocol.get or
\* to 'Archive already downloaded'
StartPlatform ==
    /\ dpc = "start"
    /\ didx < Len(DPlatforms)
    /\ LET p == didx + 1
           f == dfs[p]
           f1 == RemoveInvalid(f)
           l1 == [dlog[p] EXCEPT !.reextract = (f.final # "absent")]
       IN  IF FinalVerified(f)
           THEN /\ Returned(p, f, [dlog[p] EXCEPT !.outcome = "cached"])
                /\ UNCHANGED redirects
           ELSE IF NeedsDownload(f1.archive)
           THEN /\ dfs' = [dfs EXCEPT ![p] = [f1 EXCEPT !.archive = CreateWriteStream]]
                /\ dlog' = [dlog EXCEPT ![p] = [l1 EXCEPT !.requested = TRUE]]
                /\ redirects' = 0
                /\ dpc' = "request"
                /\ UNCHANGED didx
           ELSE /\ dfs' = [dfs EXCEPT ![p] = f1]
                /\ dlog' = [dlog EXCEPT ![p] = [l1 EXCEPT !.skipped = TRUE]]
                /\ dpc' = "extract"
                /\ UNCHANGED <<didx, redirects>>
    /\ UNCHANGED <<dsummary, dexit, druns, dfaults, dkills>>
    /\ UNCHANGED <<avars, bvars, pvars, jd, jv, fj>>

\* response with status 301, 302 or 307: close, unlink, downloadFile(location)
Redirect ==
    /\ dpc = "request"
    /\ redirects < MaxRedirects
    /\ dfs' = [dfs EXCEPT ![didx + 1].archive = CreateWriteStream]
    /\ redirects' = redirects + 1
    /\ UNCHANGED <<dpc, didx, dlog, dsummary, dexit, druns, dfaults, dkills>>
    /\ UNCHANGED <<avars, bvars, pvars, jd, jv, fj>>

\* response with another status than 200: close, unlink, reject
Non200 ==
    /\ dpc = "request"
    /\ dfaults < MaxAnomalies
    /\ DownloadFailed(didx + 1, "non200")

\* request.on('error'): before the response, or when the socket fails while
\* the body arrives
RequestError ==
    /\ dpc \in {"request", "stream"}
    /\ dfaults < MaxAnomalies
    /\ DownloadFailed(didx + 1, "request")

\* file.on('error')
FileError ==
    /\ dpc \in {"request", "stream"}
    /\ dfaults < MaxAnomalies
    /\ DownloadFailed(didx + 1, "file")

\* response with status 200: response.pipe(file)
Ok200(kinds) ==
    /\ dpc = "request"
    /\ \E k \in kinds :
        /\ k = "bad" => dfaults < MaxAnomalies
        /\ dfaults' = IF k = "bad" THEN dfaults + 1 ELSE dfaults
        /\ dfs' = [dfs EXCEPT ![didx + 1].archive.kind = k]
    /\ dpc' = "stream"
    /\ UNCHANGED <<didx, dlog, redirects, dsummary, dexit, druns, dkills>>
    /\ UNCHANGED <<avars, bvars, pvars, jd, jv, fj>>

\* a chunk of the body is written to the file
DataChunk ==
    /\ dpc = "stream"
    /\ dfs[didx + 1].archive.size < ArchiveBytes
    /\ dfs' = [dfs EXCEPT ![didx + 1].archive.size = @ + ChunkBytes]
    /\ UNCHANGED <<dpc, didx, dlog, redirects, dsummary, dexit, druns, dfaults, dkills>>
    /\ UNCHANGED <<avars, bvars, pvars, jd, jv, fj>>

\* the promise resolved while the body is still arriving
FinishDownloadEarly ==
    /\ dpc = "stream"
    /\ dpc' = "extract"
    /\ redirects' = 0
    /\ UNCHANGED <<didx, dfs, dlog, dsummary, dexit, druns, dfaults, dkills>>
    /\ UNCHANGED <<avars, bvars, pvars, jd, jv, fj>>

\* file.on('finish'): resolve
FinishDownload ==
    /\ dpc = "stream"
    /\ dfs[didx + 1].archive.size = ArchiveBytes
    /\ dpc' = "extract"
    /\ redirects' = 0
    /\ UNCHANGED <<didx, dfs, dlog, dsummary, dexit, druns, dfaults, dkills>>
    /\ UNCHANGED <<avars, bvars, pvars, jd, jv, fj>>

\* The server ends the connection before the body is complete. The response
\* has no 'aborted' or 'error' listener and pipe does not end the file: the
\* promise is never settled. The process ends, with the unhandled 'error'
\* event of the response (status 1) or with nothing left to wait for (status 0).
StreamFail ==
    /\ dpc = "stream"
    /\ dfs[didx + 1].archive.size < ArchiveBytes
    /\ dfaults < MaxAnomalies
    /\ dlog' = [dlog EXCEPT ![didx + 1].dlError = "aborted"]
    /\ dfaults' = dfaults + 1
    /\ dpc' = "exited"
    /\ dexit' \in {0, 1}
    /\ redirects' = 0
    /\ UNCHANGED <<didx, dfs, dsummary, druns, dkills>>
    /\ UNCHANGED <<avars, bvars, pvars, jd, jv, fj>>

\* 'Clean temp extraction directory': rmSync if it exists, then mkdirSync
PrepareExtract ==
    /\ dpc = "extract"
    /\ dfs' = [dfs EXCEPT ![didx + 1].temp = TRUE]
    /\ dpc' = "extracting"
    /\ UNCHANGED <<didx, dlog, redirects, dsummary, dexit, druns, dfaults, dkills>>
    /\ UNCHANGED <<avars, bvars, pvars, jd, jv, fj>>

\* the try block 'Extract' and its catch
Extract ==
    /\ dpc = "extracting"
    /\ LET p == didx + 1
           f == dfs[p]
       IN  IF ExtractionSucceeds(f.archive)
           THEN Returned(p, [f EXCEPT !.final = Moved(Unpack(f.archive)),
                                      !.temp = FALSE],
                         [dlog[p] EXCEPT !.outcome = "ready"])
           ELSE Returned(p, CleanupTemp(f),
                         [dlog[p] EXCEPT !.outcome = "extract_failed"])
    /\ UNCHANGED <<redirects, dsummary, dexit, druns, dfaults, dkills>>
    /\ UNCHANGED <<avars, bvars, pvars, jd, jv, fj>>

\* main after the loop: 'Download Complete!'
FinishRun ==
    /\ dpc = "start"
    /\ didx = Len(DPlatforms)
    /\ dsummary' = MainEnd(dlog).summary
    /\ dexit' = MainEnd(dlog).status
    /\ dpc' = "exited"
    /\ UNCHANGED <<didx, dfs, dlog, redirects, druns, dfaults, dkills>>
    /\ UNCHANGED <<avars, bvars, pvars, jd, jv, fj>>

\* The process is interrupted (Ctrl-C, a cancelled job): files stay as they are.
Kill ==
    /\ dpc \in {"start", "request", "stream", "extract", "extracting"}
    /\ dkills < MaxKills
    /\ dkills' = dkills + 1
    /\ dpc' = "killed"
    /\ dexit' = 130
    /\ redirects' = 0
    /\ UNCHANGED <<didx, dfs, dlog, dsummary, druns, dfaults>>
    /\ UNCHANGED <<avars, bvars, pvars, jd, jv, fj>>

\* The downloader is run again.
Rerun ==
    /\ dpc \in {"exited", "killed"}
    /\ druns < MaxRuns
    /\ druns' = druns + 1
    /\ dpc' = "start"
    /\ didx' = 0
    /\ dlog' = [p \in PIdx |-> NoLog]
    /\ redirects' = 0
    /\ dsummary' = NoSummary
    /\ dexit' = -1
    /\ UNCHANGED <<dfs, dfaults, dkills>>
    /\ UNCHANGED <<avars, bvars, pvars, jd, jv, fj>>

\* The states of jdk-downloads with leftovers for the platforms of D
Leftovers(D) ==
    {[p \in PIdx |-> IF p \in D THEN g[p] ELSE Fresh] :
        g \in [D -> PreStates \ {Fresh}]}

DStart ==
    /\ dpc = "start"
    /\ didx = 0
    /\ dlog = [p \in PIdx |-> NoLog]
    /\ redirects = 0
    /\ dsummary = NoSummary
    /\ dexit = -1
    /\ druns = 1
    /\ dkills = 0

\* One run of the downloader to its end, over every fault of the network and
\* of the archives.
DInitDownload ==
    /\ DStart
    /\ \E D \in {S \in SUBSET PIdx : Cardinality(S) <= MaxAnomalies} :
        /\ dfs \in Leftovers(D)
        /\ dfaults = Cardinality(D)
    /\ AInit({NoInput})
    /\ BIdle
    /\ PIdle
    /\ JIdle
    /\ VIdle
    /\ FIdle

DNextDownload ==
    \/ StartPlatform
    \/ Redirect
    \/ Non200
    \/ RequestError
    \/ FileError
    \/ Ok200({"good", "bad"})
    \/ DataChunk
    \/ FinishDownload
    \/ StreamFail
    \/ PrepareExtract
    \/ Extract
    \/ FinishRun

SpecDownload == DInitDownload /\ [][DNextDownload]_vars

\* Runs of the downloader that may be interrupted and run again, starting
\* with an empty jdk-downloads, over a network and archives without faults.
DInitResume ==
    /\ DStart
    /\ dfs = [p \in PIdx |-> Fresh]
    /\ dfaults = 0
    /\ AInit({NoInput})
    /\ BIdle
    /\ PIdle
    /\ JIdle
    /\ VIdle
    /\ FIdle

DNextResume ==
    \/ StartPlatform
    \/ Redirect
    \/ Ok200({"good"})
    \/ DataChunk
    \/ FinishDownload
    \/ PrepareExtract
    \/ Extract
    \/ FinishRun
    \/ Kill
    \/ Rerun

SpecResume == DInitResume /\ [][DNextResume]_vars

\* Runs of the packager, as a script with every argument and state of the
\* prerequisites, and as a module whose function is called.
PInit ==
    /\ ppc \in {"main", "required"}
    /\ pargv \in PArgvValues
    /\ ppc = "required" => ~pargv.given
    /\ jreDirExists \in BOOLEAN
    /\ jarCount \in 0..MaxPkgJars
    /\ pidx = 0
    /\ presults = <<>>
    /\ archives = {}
    /\ lastPkg = NoPkg
    /\ pexit = -1
    /\ AInit({NoInput})
    /\ BIdle
    /\ DIdle
    /\ JIdle
    /\ VIdle
    /\ FIdle

PNext == PMainStart \/ PackageSingle \/ PackageNext \/ PSummary \/ CallPackage

SpecPackage == PInit /\ [][PNext]_vars

\* Calls of analyzeJAR alone.
JInitAll == JInit /\ AInit({NoInput}) /\ BIdle /\ DIdle /\ PIdle /\ VIdle /\ FIdle

SpecJdeps == JInitAll /\ [][JNext]_vars

\* The resolution of the JDK version alone.
VInitAll == VInit /\ AInit({NoInput}) /\ BIdle /\ DIdle /\ PIdle /\ JIdle /\ FIdle

SpecVersion == VInitAll /\ [][VNext]_vars

\* findJDK and the path analyzeJAR builds from its result.
FInitAll == FInit /\ AInit({NoInput}) /\ BIdle /\ DIdle /\ PIdle /\ JIdle /\ VIdle

SpecFindJdk == FInitAll /\ [][FNext]_vars

\* Runs of the analyzer.
AInitAll == AInit(AInputs) /\ BIdle /\ DIdle /\ PIdle /\ JIdle /\ VIdle /\ FIdle

SpecAnalyze == AInitAll /\ [][ANext]_vars

\* Runs of the builder over every configuration of the module sources, with
\* JDKs in place and a linking tool that works.
BInitResolve ==
    /\ bpc = "load"
    /\ envMODULES \in EnvValues
    /\ cwdFiles \in FileLists
    /\ MODULES = DEFAULT_MODULES
    /\ modulesSource = [kind |-> "default", name |-> <<>>]
    /\ sourceLog = <<>>
    /\ argvPlatform \in ArgvValues
    /\ jdkDirExists = TRUE
    /\ bidx = 0
    /\ results = <<>>
    /\ lastBuild = NoBuild
    /\ bexit = -1
    /\ AInit({NoInput})
    /\ DIdle
    /\ PIdle
    /\ JIdle
    /\ VIdle
    /\ FIdle

BNextResolve ==
    \/ LoadModule
    \/ MainStart
    \/ BuildSingle({"ok"}, {"absent"}, {FALSE}, {"zero_valid"})
    \/ BuildNext({"ok"}, {"absent"}, {FALSE}, {"zero_valid"})
    \/ Summary

SpecResolve == BInitResolve /\ [][BNextResolve]_vars

\* Runs of the builder over every state of the JDKs and output paths and
\* every outcome of the linking tool, with the module list from the
\* environment or the default.
BInitBuild ==
    /\ bpc = "load"
    /\ envMODULES \in EnvValues
    /\ cwdFiles = <<>>
    /\ MODULES = DEFAULT_MODULES
    /\ modulesSource = [kind |-> "default", name |-> <<>>]
    /\ sourceLog = <<>>
    /\ argvPlatform \in ArgvValues
    /\ jdkDirExists \in BOOLEAN
    /\ bidx = 0
    /\ results = <<>>
    /\ lastBuild = NoBuild
    /\ bexit = -1
    /\ AInit({NoInput})
    /\ DIdle
    /\ PIdle
    /\ JIdle
    /\ VIdle
    /\ FIdle

BNextBuild ==
    \/ LoadModule
    \/ MainStart
    \/ BuildSingle(JdkStates, OutStates, BOOLEAN, LinkOutcomes)
    \/ BuildNext(JdkStates, OutStates, BOOLEAN, LinkOutcomes)
    \/ Summary

SpecBuild == BInitBuild /\ [][BNextBuild]_vars

-----------------------------------------------------------------------------
(* Properties of analyze-jar.js *)

Ascending(a) == \A i, j \in 1..Len(a) : i < j => StrLess(a[i], a[j])

SuccessfulModules ==
    UNION {Range(jarResults[i].modules) :
            i \in {k \in 1..Len(jarResults) : jarResults[k].success}}

\* C1: when at least one analysis succeeded, the final module list holds
\* exactly the modules of the successful analyses, each once, in ascending
\* order, and the file written holds that list with commas between, whatever
\* the order of the JARs.
C1_UnionSortedJoined ==
    (apc = "done" /\ \E i \in 1..Len(jarResults) : jarResults[i].success) =>
        /\ Range(finalModules) = SuccessfulModules
        /\ Ascending(finalModules)
        /\ Cardinality(written) = 1
        /\ \A w \in written : Split(w.content) = finalModules

\* scenario A of the specification: {base, xml} and {base, sql} give 'base,sql,xml'
C1_Witness ==
    /\ apc = "done"
    /\ Len(jarResults) = 2
    /\ jarResults[1].success /\ jarResults[1].modules = <<base, xml>>
    /\ jarResults[2].success /\ jarResults[2].modules = <<base, sql>>
    /\ written = {[name |-> CombinedName,
                   content |-> <<"b","a","s","e",",","s","q","l",",","x","m","l">>]}

-----------------------------------------------------------------------------
(* Properties of the module source resolution of build-jre-all-platforms.js *)

Blank(s) == Range(s) \subseteq Whitespace

\* t is s without its leading and trailing white space
IsTrimOf(t, s) ==
    /\ \E i \in 0..Len(s), j \in 0..Len(s) :
        /\ i <= j
        /\ t = SubSeq(s, i + 1, j)
        /\ \A k \in (1..i) \cup ((j + 1)..Len(s)) : s[k] \in Whitespace
    /\ t # <<>> => (t[1] \notin Whitespace /\ t[Len(t)] \notin Whitespace)

KnownTarget == argvPlatform.given => argvPlatform.key \in BuilderKeys

CustomFiles == {i \in 1..Len(cwdFiles) : cwdFiles[i].name = CustomName}

ModuleFileIndexes ==
    {i \in 1..Len(cwdFiles) :
        LET n == cwdFiles[i].name
        IN  Len(n) >= Len(ModulesSuffix)
            /\ \A k \in 1..Len(ModulesSuffix) :
                n[Len(n) - Len(ModulesSuffix) + k] = ModulesSuffix[k]}

\* the module files of greatest modification time
Newest == {i \in ModuleFileIndexes :
            \A j \in ModuleFileIndexes : cwdFiles[j].mtime <= cwdFiles[i].mtime}

\* the first of them in the order of the directory listing
NewestFirstListed == CHOOSE i \in Newest : \A j \in Newest : i <= j

\* C2: with a non-empty MODULES in the environment, a run for all platforms
\* or for a known platform ends having handed that value to the linking tool.
C2_EnvOverrideReachesLink ==
    (EnvTruthy(envMODULES) /\ KnownTarget /\ bpc = "exited") =>
        (lastBuild.invoked /\ lastBuild.modules = envMODULES.value)

\* C3: without the environment override, and with a custom-modules.txt that
\* is not blank, the module list after resolution, and the one every jlink
\* run gets, is the trimmed content of custom-modules.txt, whatever other
\* module files exist and whatever their times.
C3_CustomFileWins ==
    \A i \in CustomFiles :
        (~EnvTruthy(envMODULES) /\ ~Blank(cwdFiles[i].content)) =>
            /\ bpc # "load" => IsTrimOf(MODULES, cwdFiles[i].content)
            /\ lastBuild.invoked => IsTrimOf(lastBuild.modules, cwdFiles[i].content)

C3_Witness ==
    /\ lastBuild.invoked
    /\ ~EnvTruthy(envMODULES)
    /\ \E i \in CustomFiles, j \in ModuleFileIndexes :
        /\ ~Blank(cwdFiles[i].content)
        /\ ~Blank(cwdFiles[j].content)
        /\ cwdFiles[j].mtime > cwdFiles[i].mtime
        /\ j < i
        /\ ~IsTrimOf(lastBuild.modules, cwdFiles[j].content)

-----------------------------------------------------------------------------
(* Properties of the builders of build-jre-all-platforms.js *)

\* C5: a builder that gets to buildJre with a valid image already at the
\* output path neither removes the image nor runs jlink.
C5_ValidImageNotRebuilt ==
    (lastBuild.ret # "none" /\ lastBuild.jdk = "ok" /\ lastBuild.preOut = "valid") =>
        (~lastBuild.invoked /\ ~lastBuild.removed /\ lastBuild.postOut = "valid")

\* C6: a builder returns true only if the image at the output path holds the
\* java binary once jlink has exited.
C6_SuccessOnlyWithJavaBinary ==
    lastBuild.ret = "true" => (lastBuild.invoked /\ lastBuild.postOut = "valid")

AllSucceeded == \A i \in 1..Len(results) : results[i].success

\* C8: in the loop over all platforms the builders are called in the order of
\* the table, one result per builder called, whatever the earlier calls
\* returned or threw; the loop is left only after the sixth call, and the
\* exit status then is 0 exactly if all six results are true.
C8_AllPlatformsAttempted ==
    /\ [](bpc = "all" =>
            /\ Len(results) = bidx
            /\ \A i \in 1..Len(results) :
                /\ results[i].name = Builders[i].name
                /\ results[i].success \in BOOLEAN
            /\ bidx < Len(Builders) =>
                 ENABLED BuildNext(JdkStates, OutStates, BOOLEAN, LinkOutcomes))
    /\ [][(bpc = "all" /\ bpc' # "all") =>
            /\ bpc' = "exited"
            /\ Len(results') = Len(Builders)
            /\ \A i \in 1..Len(Builders) : results'[i].name = Builders[i].name
            /\ (bexit' = 0) <=> AllSucceeded']_vars

C8_Witness ==
    /\ bpc = "exited"
    /\ Len(results) = Len(Builders)
    /\ ~results[1].success
    /\ ~results[3].success
    /\ results[4].success
    /\ lastBuild.ret = "true"
    /\ bexit = 1

-----------------------------------------------------------------------------
(* Properties of download-jdks.js *)

Processed(p) == dlog[p].outcome # "pending"

\* C7: when the run has ended and extraction failed for the third platform,
\* the other five platforms were processed, the summary printed at the end
\* marks the third platform, and only it when the others succeeded, as
\* failed, and the exit status is not 0.
C7_ThirdFailureIsolatedAndReported ==
    (dpc = "exited" /\ dlog[3].outcome = "extract_failed") =>
        /\ \A p \in PIdx \ {3} : Processed(p)
        /\ 3 \in dsummary.failed
        /\ (\A p \in PIdx \ {3} : dlog[p].outcome \in {"ready", "cached"})
              => dsummary.failed = {3}
        /\ dexit # 0

\* C9: once a download has failed, by a response other than 200, a request
\* error, a write-stream error or a connection ended while the body arrives,
\* the archive file does not exist.
C9_NoPartialArchiveAfterError ==
    \A p \in PIdx : dlog[p].dlError # "none" => ~dfs[p].archive.exists

\* C10: an invocation after an interrupted one skips the download only of
\* archives that are complete, and, with no fault of the network or of the
\* archives, an invocation that runs to its end leaves a verified JDK
\* directory for every platform.
C10_RerunRestartsIncompleteDownloads ==
    /\ \A p \in PIdx : dlog[p].skipped => Complete(dfs[p].archive)
    /\ (dpc = "exited" /\ dexit = 0) => \A p \in PIdx : dfs[p].final = "valid"

C16_TempRemovedAfterExtraction ==
    /\ [][\A p \in PIdx :
            (dpc = "extracting" /\ didx + 1 = p /\ dpc' # "killed") =>
                /\ dfs[p].temp
                /\ ~dfs'[p].temp
                /\ dlog'[p].outcome \in {"ready", "extract_failed"}
                /\ dpc' = "start" /\ didx' = p]_vars
    /\ [](\A p \in PIdx :
            /\ dlog[p].outcome \in {"ready", "extract_failed"} => ~dfs[p].temp
            /\ (dlog[p].outcome = "extract_failed" /\ dpc = "start" /\ didx = p
                  /\ p < Len(DPlatforms)) => ENABLED StartPlatform)

\* extraction failed for a platform, its temporary directory is gone and the
\* next platform was made ready
C16_Witness ==
    \E p \in PIdx :
        /\ dlog[p].outcome = "extract_failed"
        /\ ~dfs[p].temp
        /\ p < Len(DPlatforms)
        /\ dlog[p + 1].outcome = "ready"

-----------------------------------------------------------------------------
(* Further properties of analyze-jar.js *)

FailedJars == {i \in 1..Len(jarResults) : ~jarResults[i].success}

\* C12: when some analyses failed and at least one succeeded, the forEach
\* went through every JAR, main ended with status 0, the final module list
\* holds the modules of the successful analyses and no module of the default
\* list, and each failed JAR is listed under 'Per-JAR Results' as failed.
C12_FailedJarsReportedNotMixed ==
    /\ [][apc = "analyze" => (apc' \in {"analyze", "finalize"} /\ aexit' = -1)]_vars
    /\ []((apc = "done" /\ FailedJars # {} /\ FailedJars # 1..Len(jarResults)) =>
            /\ aexit = 0
            /\ Len(jarResults) = Len(jarFiles)
            /\ Range(finalModules) = SuccessfulModules
            /\ Range(finalModules) \cap Range(DEFAULT_MODULES_LIST) = {}
            /\ \A w \in written : Range(Split(w.content)) = SuccessfulModules
            /\ Len(PerJarResults) = Len(jarFiles)
            /\ \A i \in FailedJars :
                PerJarResults[i] = [jar |-> jarFiles[i], modules |-> <<>>,
                                    success |-> FALSE])

\* of three JARs the first and the third failed
C12_Witness ==
    /\ apc = "done"
    /\ FailedJars = {1, 3}
    /\ Len(jarResults) = 3
    /\ jarResults[2].modules = <<xml, base>>
    /\ finalModules = <<base, xml>>

DefaultListVerbatim ==
    <<java_base, java_desktop, java_xml, java_logging, java_naming, java_sql,
      java_management, jdk_unsupported>>

DefaultStringVerbatim ==
    java_base \o <<",">> \o java_desktop \o <<",">> \o java_xml \o <<",">>
        \o java_logging \o <<",">> \o java_naming \o <<",">> \o java_sql
        \o <<",">> \o java_management \o <<",">> \o jdk_unsupported

\* C13: when no JDK with jdeps was found, or every analysis failed, main
\* goes on to its end with status 0, and the one file it writes holds the
\* eight modules of the default list, in the order of the source, with
\* commas between.
C13_DefaultListVerbatim ==
    /\ [][(apc = "findjdk" /\ ~jdkFound') => apc' = "finalize"]_vars
    /\ [][apc = "finalize" => (apc' = "done" /\ aexit' = 0)]_vars
    /\ []((apc = "done" /\ (~jdkFound \/ FailedJars = 1..Len(jarResults))) =>
            /\ aexit = 0
            /\ finalModules = DefaultListVerbatim
            /\ modSource = "default"
            /\ Cardinality(written) = 1
            /\ \A w \in written : w.content = DefaultStringVerbatim)

\* scenario B of the specification: two JARs, no analysis tool
C13_Witness ==
    /\ apc = "done"
    /\ ~jdkFound
    /\ Len(jarFiles) = 2
    /\ jarResults = <<>>
    /\ written = {[name |-> CombinedName, content |-> DefaultStringVerbatim]}

IsJarName(n) == n \in JarNames

NoJarIn(list) == \A i \in 1..Len(list) : ~IsJarName(list[i])

\* the cases in which there is no JAR to analyze
NoJarFound(in) ==
    IF ~in.given
    THEN (in.jarsDir # "dir" \/ NoJarIn(in.jarsList)) /\ NoJarIn(in.cwdList)
    ELSE \/ in.kind = "missing"
         \/ in.kind = "file" /\ ~IsJarName(in.path)
         \/ in.kind = "dir" /\ NoJarIn(in.dirList)

-----------------------------------------------------------------------------
(* Further properties of build-jre-all-platforms.js *)

\* the tag of the line that names the selected source
SourceTag ==
    CASE modulesSource.kind = "env" -> "ENV"
      [] modulesSource.kind = "file" /\ modulesSource.name = CustomName -> "CUSTOM"
      [] modulesSource.kind = "file" /\ modulesSource.name # CustomName -> "AUTO"
      [] OTHER -> "DEFAULT"

\* C14: once the resolution is over, and so before jlink is run for any
\* platform, the last line the resolution printed names the source selected.
C14_SelectedSourceLogged ==
    bpc \notin {"idle", "load"} =>
        (sourceLog # <<>> /\ sourceLog[Len(sourceLog)] = SourceTag)

-----------------------------------------------------------------------------
(* Properties of create-portable.js *)

\* C17: a call of createPortablePackage made with the platform's JRE
\* directory missing, or with no JAR in JAR_FILES, returns false and leaves
\* the package directory, the archive and the set of archives as they were;
\* the package directory is touched only in calls with both in place.
C17_NoPackagingWithoutPrerequisites ==
    /\ [](lastPkg.ret # "none" =>
            /\ (~lastPkg.jre \/ lastPkg.jars = 0) =>
                 /\ lastPkg.ret = "false"
                 /\ ~lastPkg.attempted
                 /\ lastPkg.postDir = lastPkg.preDir
                 /\ lastPkg.postArchive = lastPkg.preArchive
            /\ lastPkg.attempted => (lastPkg.jre /\ lastPkg.jars > 0))
    /\ [][(lastPkg'.ret # "none" /\ (~lastPkg'.jre \/ lastPkg'.jars = 0))
            => archives' = archives]_vars

\* the JRE is there, JAR_FILES is empty, and an old package and archive stay
C17_Witness ==
    /\ lastPkg.ret = "false"
    /\ lastPkg.jre
    /\ lastPkg.jars = 0
    /\ lastPkg.preDir = "old" /\ lastPkg.postDir = "old"
    /\ lastPkg.preArchive = "old" /\ lastPkg.postArchive = "old"

\* The six platform targets, as pairs and as names.
SixTargets ==
    { <<"windows", "x64">>, <<"windows", "arm64">>, <<"macos", "x64">>,
      <<"macos", "arm64">>, <<"linux", "x64">>, <<"linux", "arm64">> }

SixTargetNames ==
    { "windows-x64", "windows-arm64", "macos-x64", "macos-arm64",
      "linux-x64", "linux-arm64" }

ExpectedFormat(t) == IF t[1] = "windows" THEN "zip" ELSE "tar.gz"

\* C18: a run for all platforms that got to its summary has a result for
\* each of the six targets, windows-arm64 among them, and, if it ends with
\* status 0, has created a ZIP for each Windows target and a TAR.GZ for each
\* macOS and Linux target.
C18_SixArchives ==
    (ppc = "exited" /\ Len(presults) > 0) =>
        /\ \A t \in SixTargets : \E i \in 1..Len(presults) : presults[i].name = t
        /\ pexit = 0 =>
             \A t \in SixTargets :
                [target |-> t, format |-> ExpectedFormat(t)] \in archives

\* C20: with the prerequisites in place and a platform argument given, a run
\* of the builder or of the packager with a name outside the six targets ends
\* with a status other than 0 and no builder or packager called; with one of
\* the six it calls the builder or packager of that target and no other, and
\* ends with status 0 exactly if that call returned true.
C20_PlatformArgument ==
    /\ (bpc = "exited" /\ argvPlatform.given /\ jdkDirExists
          /\ ~EnvTruthy(envMODULES)) =>
            /\ results = <<>>
            /\ IF argvPlatform.key \notin SixTargetNames
               THEN bexit > 0 /\ lastBuild = NoBuild
               ELSE /\ lastBuild.platform = argvPlatform.key
                    /\ bexit = 0 <=> lastBuild.ret = "true"
    /\ (ppc = "exited" /\ pargv.given /\ jreDirExists /\ jarCount > 0) =>
            /\ presults = <<>>
            /\ IF pargv.key \notin SixTargets
               THEN pexit > 0 /\ lastPkg = NoPkg
               ELSE /\ lastPkg.target = pargv.key
                    /\ pexit = 0 <=> lastPkg.ret = "true"

-----------------------------------------------------------------------------
(* Further properties of the builders of build-jre-all-platforms.js *)

\* C21: a builder whose JDK directory is missing or holds no jlink returns
\* false without running jlink and without removing what is at its output
\* path; in the loop over all platforms its result is recorded as a failure
\* and the next builder can be called.
C21_MissingJdkFailsPlatformOnly ==
    /\ [](lastBuild.ret # "none" /\ lastBuild.jdk # "ok" =>
            /\ lastBuild.ret = "false"
            /\ ~lastBuild.invoked
            /\ ~lastBuild.removed
            /\ lastBuild.postOut = lastBuild.preOut)
    /\ []((bpc = "all" /\ bidx > 0 /\ lastBuild.jdk # "ok") =>
            /\ results[bidx] = [name |-> Builders[bidx].name, success |-> FALSE]
            /\ bidx < Len(Builders) =>
                 ENABLED BuildNext(JdkStates, OutStates, BOOLEAN, LinkOutcomes))

\* the second builder found a JDK without jlink and left a valid image alone,
\* after the first had succeeded
C21_Witness ==
    /\ bpc = "all"
    /\ bidx = 2
    /\ results[1].success
    /\ ~results[2].success
    /\ lastBuild.jdk = "nojlink"
    /\ lastBuild.preOut = "valid"
    /\ lastBuild.postOut = "valid"

-----------------------------------------------------------------------------
(* Properties of analyzeJAR *)

\* the invocation whose output analyzeJAR goes on with
Accepted == IF jd.versioned.threw THEN jd.plain ELSE jd.versioned

\* the trimmed pieces between the commas of the accepted output that are not
\* empty, do not start with '-' and do not contain 'Error'
UsableTokens ==
    LET pieces == TrimAll(Split(Trim(Accepted.out)))
        keep == {i \in 1..Len(pieces) :
                    /\ pieces[i] # <<>>
                    /\ pieces[i][1] # "-"
                    /\ ~Includes(pieces[i], ErrorWord)}
    IN  [pieces |-> pieces, keep |-> keep]

\* C22: analyzeJAR runs the versioned invocation first and the plain one
\* only after the versioned one has thrown; the value returned is null when
\* both throw, or when the output of the invocation that did not throw is
\* blank, contains 'Error' or 'not found', or has no usable token, and else it
\* is the usable tokens of that output, in order.
C22_VersionedThenPlain ==
    /\ [](jd.pc # "idle" =>
            /\ jd.calls \in {<<>>, <<"versioned">>, <<"versioned", "plain">>}
            /\ jd.pc = "start" <=> jd.calls = <<>>
            /\ Len(jd.calls) = 2 => jd.versioned.threw
            /\ jd.pc \in {"parse", "returned"} =>
                 (Len(jd.calls) = 2 <=> jd.versioned.threw))
    /\ [](jd.pc = "returned" =>
            LET failed ==
                    \/ Accepted.threw
                    \/ Blank(Accepted.out)
                    \/ Includes(Accepted.out, ErrorWord)
                    \/ Includes(Accepted.out, NotFoundWords)
                    \/ UsableTokens.keep = {}
            IN  /\ jd.result.isNull <=> failed
                /\ ~failed =>
                     /\ Range(jd.result.modules) =
                            {UsableTokens.pieces[i] : i \in UsableTokens.keep}
                     /\ \A i, j \in 1..Len(jd.result.modules) :
                            i < j =>
                              \E a, b \in UsableTokens.keep :
                                /\ a < b
                                /\ UsableTokens.pieces[a] = jd.result.modules[i]
                                /\ UsableTokens.pieces[b] = jd.result.modules[j])

\* the versioned invocation threw and the modules come from the plain one
C22_Witness ==
    /\ jd.pc = "returned"
    /\ jd.calls = <<"versioned", "plain">>
    /\ jd.versioned.threw
    /\ jd.plain.out = <<" ">> \o sql \o <<" ", ",", ",", "-", "x">>
    /\ jd.result = Modules(<<sql>>)

-----------------------------------------------------------------------------
(* Properties of the file analyze-jar.js writes *)

DashModulesTxt == <<"-", "m", "o", "d", "u", "l", "e", "s", ".", "t", "x", "t">>

\* C23: a run of the analyzer that found JARs goes on to its end and has
\* then written one file, also when the default list is used: with one JAR
\* the file is named after the JAR without '.jar', followed by '-modules.txt',
\* with several it is 'combined-modules.txt'; the builder's filter of the
\* working directory keeps a file of that name.
C23_OneModuleFileWritten ==
    /\ [][(apc \in {"findjdk", "analyze", "finalize"}) =>
            (apc' \in {"analyze", "finalize", "done"})]_vars
    /\ [](apc \in {"discover", "findjdk", "analyze", "finalize", "exit"} =>
            written = {})
    /\ [](apc = "done" =>
            /\ Cardinality(written) = 1
            /\ \A w \in written :
                /\ IF Len(jarFiles) = 1
                   THEN \E stem \in {SubSeq(jarFiles[1], 1, k) : k \in 0..Len(jarFiles[1])} :
                            /\ stem \o <<".", "j", "a", "r">> = jarFiles[1]
                            /\ w.name = stem \o DashModulesTxt
                   ELSE w.name = <<"c", "o", "m", "b", "i", "n", "e", "d">> \o DashModulesTxt
                /\ Len(FilterModuleFiles(<<[name |-> w.name, content |-> w.content,
                                           mtime |-> 1]>>)) = 1)

\* one JAR, no JDK: 'y-modules.txt' holds the default list
C23_Witness ==
    /\ apc = "done"
    /\ jarFiles = <<JarY>>
    /\ modSource = "default"
    /\ written = {[name |-> <<"y">> \o DashModulesTxt, content |-> DefaultStringVerbatim]}

-----------------------------------------------------------------------------
(* Further properties of download-jdks.js *)

Started(p) == dlog[p].requested \/ dlog[p].skipped \/ Processed(p)

\* C24: the platforms are taken in the order of PLATFORMS, one at a time: a
\* platform is started only when every platform before it has been finished,
\* and the steps of the extraction are reached only with the download of that
\* platform skipped or its archive written to the end.
C24_OnePlatformAtATime ==
    /\ [][didx' \in {didx, didx + 1}]_vars
    /\ [](\A p \in PIdx :
            /\ Started(p) => \A q \in 1..(p - 1) : Processed(q)
            /\ (Started(p) /\ ~Processed(p)) => p = didx + 1
            /\ Processed(p) <=> p <= didx)
    /\ [](dpc \in {"request", "stream", "extract", "extracting"} =>
            /\ didx + 1 \in PIdx
            /\ dpc \in {"request", "stream"} =>
                 (dlog[didx + 1].requested /\ ~dlog[didx + 1].skipped)
            /\ dpc \in {"extract", "extracting"} =>
                 \/ dlog[didx + 1].skipped
                 \/ dlog[didx + 1].requested /\ Complete(dfs[didx + 1].archive))

\* the second platform is being extracted, its archive downloaded to the end,
\* with the first platform finished
C24_Witness ==
    /\ dpc = "extracting"
    /\ didx = 1
    /\ Processed(1)
    /\ dlog[2].requested
    /\ Complete(dfs[2].archive)
    /\ \A p \in 3..Len(DPlatforms) : ~Started(p)

-----------------------------------------------------------------------------
(* The JDK version of build-jre-all-platforms.js *)

\* name is 'jdk-' followed by the digits v and then by no further digit
NamesVersion(name, v) ==
    /\ v # <<>>
    /\ Range(v) \subseteq Digits
    /\ StartsWith(name, JdkDash \o v)
    /\ Len(name) > Len(JdkDash \o v) => name[Len(JdkDash \o v) + 1] \notin Digits

\* the versions named by the directories of jdk-downloads
DirectoryVersions ==
    IF ~jv.dirExists THEN {}
    ELSE {v \in UNION {{SubSeq(jv.entries[i].name, 5, k) :
                            k \in 5..Len(jv.entries[i].name)} :
                        i \in 1..Len(jv.entries)} :
            \E i \in 1..Len(jv.entries) :
                jv.entries[i].isDir /\ NamesVersion(jv.entries[i].name, v)}

HighestDetectedElseDefault ==
    IF DirectoryVersions # {}
    THEN /\ jv.JDK_VERSION \in DirectoryVersions
         /\ \A v \in DirectoryVersions : parseInt(v) <= parseInt(jv.JDK_VERSION)
    ELSE jv.JDK_VERSION = <<"2", "1">>

-----------------------------------------------------------------------------
(* findJDK and analyzeJAR of analyze-jar.js *)

\* C30: when findJDK has returned a directory, the path analyzeJAR builds from
\* it names the file whose existence findJDK checked in that directory, and
\* that file exists.
C30_CheckedToolIsRunTool ==
    (fj.pc = "built" /\ ~fj.found.isNull) =>
        /\ fj.jdeps = [dir |-> fj.found.dir, file |-> fj.found.checked]
        /\ ToolExists(fj.files[fj.jdeps.dir], fj.jdeps.file)

-----------------------------------------------------------------------------
(* Further properties of the module source resolution *)

\* The top-level statements have run to the end: with a non-empty MODULES in
\* the environment the statement at line 101 throws and the script ends there.
ResolutionCompleted == bpc # "load" /\ ~EnvTruthy(envMODULES)

\* C26: when the resolution has completed, the module list is neither empty
\* nor blank: it is the default list or the trimmed content of a module file
\* that is not blank; an empty value of MODULES and a blank file are never
\* the source.
C26_ModuleListNeverBlank ==
    ResolutionCompleted =>
        /\ ~Blank(MODULES)
        /\ modulesSource.kind # "env"
        /\ \/ MODULES = DEFAULT_MODULES /\ modulesSource.kind = "default"
           \/ /\ modulesSource.kind = "file"
              /\ \E i \in ModuleFileIndexes :
                   /\ cwdFiles[i].name = modulesSource.name
                   /\ ~Blank(cwdFiles[i].content)
                   /\ IsTrimOf(MODULES, cwdFiles[i].content)

\* MODULES is set and empty, custom-modules.txt and an auto-generated file
\* are both blank: jlink gets the default list
C26_Witness ==
    /\ lastBuild.invoked
    /\ envMODULES = [set |-> TRUE, value |-> <<>>]
    /\ Len(cwdFiles) = 2
    /\ \A i \in 1..2 : Blank(cwdFiles[i].content)
    /\ cwdFiles[1].name = CustomName
    /\ cwdFiles[2].name = AppName
    /\ lastBuild.modules = DEFAULT_MODULES

OtherModuleFiles == ModuleFileIndexes \ CustomFiles

NewestOther == {i \in OtherModuleFiles :
                 \A j \in OtherModuleFiles : cwdFiles[j].mtime <= cwdFiles[i].mtime}

NewestOtherFirstListed == CHOOSE i \in NewestOther : \A j \in NewestOther : i <= j

\* C27: with a blank custom-modules.txt (and no MODULES in the environment) the
\* module list after the resolution is the one a run without that file has:
\* the trimmed content of the newest of the other module files if that file is
\* not blank, and the default list otherwise.
C27_BlankCustomFileIgnored ==
    (ResolutionCompleted /\ \E i \in CustomFiles : Blank(cwdFiles[i].content)) =>
        IF OtherModuleFiles # {} /\ ~Blank(cwdFiles[NewestOtherFirstListed].content)
        THEN IsTrimOf(MODULES, cwdFiles[NewestOtherFirstListed].content)
        ELSE MODULES = DEFAULT_MODULES

-----------------------------------------------------------------------------
(* Further properties of buildJre *)

\* C29: whenever buildJre has run jlink, nothing was at the output path when
\* jlink started: a directory that was there before the call has been removed,
\* and what is there after a successful call is what jlink created.
C29_OutputAbsentAtLink ==
    /\ lastBuild.invoked =>
         /\ lastBuild.atLink = "absent"
         /\ lastBuild.preOut # "absent" <=> lastBuild.removed
         /\ lastBuild.ret \in {"true", "false"}
         /\ lastBuild.ret = "true" => lastBuild.postOut # "absent"
    /\ ~lastBuild.invoked => (lastBuild.atLink = "none" /\ ~lastBuild.removed)

\* an earlier image was at the output path, was removed, and jlink built a new one
C29_Witness ==
    /\ lastBuild.invoked
    /\ lastBuild.preOut = "valid"
    /\ lastBuild.removed
    /\ lastBuild.atLink = "absent"
    /\ lastBuild.ret = "true"
    /\ lastBuild.postOut = "valid"

-----------------------------------------------------------------------------
(* The final directory of a platform *)

====
